---------------------------- MODULE Spec2Model ----------------------------
(***************************************************************************)
(* Facial-measurement pipeline of visaomais: the measurement engine        *)
(* (utils/measurementCalculations), the warning rules and the advanced     *)
(* analysis service and route (services/measurementService,                *)
(* routes/measurements) and the image quality scorer                       *)
(* (utils/imageProcessing).                                                *)
(*                                                                         *)
(* The functions are stateless: every action on them is one whole call,    *)
(* taken from the idle state, and records the call and what it produced.   *)
(*                                                                         *)
(* The route handlers of the server (api/appointments, api/openai,         *)
(* routes/measurements, the facial-measurement routes) run concurrently:   *)
(* a handler runs from one await to the next in one step, and the steps of *)
(* different requests interleave.                                          *)
(*                                                                         *)
(* Numbers.  A JavaScript number is modelled as an exact value             *)
(*     n / d * CALIBRATION_FACTOR^c                                        *)
(* [n, d, c] with d > 0 a rational, d = 0 the three non-numbers            *)
(* (n = 0 NaN, n > 0 +Infinity, n < 0 -Infinity).  Floating-point rounding *)
(* is not modelled: results are those of real arithmetic.                  *)
(***************************************************************************)
EXTENDS Integers, Sequences, FiniteSets, TLC

VARIABLES call, result

\* the requests being handled, each with its handler, its position and its
\* local variables
VARIABLES requests

\* the appointments table
VARIABLES appointments

\* the franchisee applications, users and franchisee profiles tables
VARIABLES applications, users, profiles

\* the clients of the connection pool and the measurements table
VARIABLES pool, savedMeasurements

\* measurementService: the module variable modelsLoaded, and how often each
\* face-api model has been loaded from disk
VARIABLES modelsLoaded, loads

server ==
    <<requests, appointments, applications, users, profiles, pool,
      savedMeasurements, modelsLoaded, loads>>

vars == <<call, result, server>>

\* what the appointment routes and the franchisee routes leave alone
exceptAppointments ==
    <<call, result, applications, users, profiles, pool, savedMeasurements,
      modelsLoaded, loads>>

exceptFranchisees ==
    <<call, result, appointments, pool, savedMeasurements, modelsLoaded, loads>>

exceptMeasurements ==
    <<call, result, appointments, applications, users, profiles, modelsLoaded, loads>>

exceptDetection ==
    <<call, result, appointments, applications, users, profiles, pool,
      savedMeasurements>>

\* F applied to the value of v, with v evaluated once (a local constant of
\* the source that is read several times)
Const(v, F(_)) == CHOOSE r \in { F(x) : x \in {v} } : TRUE

\* how a call ends
Return(v) == [kind |-> "return", value |-> v]

Throw(e) == [kind |-> "throw", error |-> e]

\* try { attempt } catch { recovery }
TryCatch(attempt, recovery) == IF attempt.kind = "throw" THEN recovery ELSE attempt

-----------------------------------------------------------------------------
(* Exact arithmetic on JavaScript numbers *)

RECURSIVE Gcd(_, _)
Gcd(a, b) == IF b = 0 THEN a ELSE Gcd(b, a % b)

AbsInt(a) == IF a < 0 THEN -a ELSE a

\* the integer square root of s, searched between lo and hi
RECURSIVE SqrtBetween(_, _, _)
SqrtBetween(s, lo, hi) ==
    IF lo >= hi THEN lo
    ELSE LET mid == (lo + hi + 1) \div 2
         IN  IF mid * mid <= s THEN SqrtBetween(s, mid, hi)
             ELSE SqrtBetween(s, lo, mid - 1)

\* Math.sqrt on a square; the search stops below the square root of 2^31
MathSqrt(s) == SqrtBetween(s, 0, IF s < 46340 THEN s ELSE 46340)

IsSquare(s) == MathSqrt(s) * MathSqrt(s) = s

\* the largest k whose square divides s > 0: Math.sqrt(s) is k times the
\* square root of s / k^2
SquarePart(s) ==
    CHOOSE k \in 1..MathSqrt(s) :
        /\ s % (k * k) = 0
        /\ \A j \in (k + 1)..MathSqrt(s) : s % (j * j) # 0

\* A number is n / d, times the square root of r, times
\* CALIBRATION_FACTOR^c; r is 1 except for the square root of a number
\* that is no square.
NaN == [n |-> 0, d |-> 0, c |-> 0, r |-> 1]

Infinity(sign) == [n |-> sign, d |-> 0, c |-> 0, r |-> 1]

\* the rational n / d (d # 0) in lowest terms, times CALIBRATION_FACTOR^c
Frac(n, d, c) ==
    LET g == Gcd(AbsInt(n), AbsInt(d))
        s == IF d < 0 THEN -1 ELSE 1
    IN  [n |-> (s * n) \div g, d |-> (s * d) \div g, c |-> c, r |-> 1]

Num(i) == [n |-> i, d |-> 1, c |-> 0, r |-> 1]

\* the rational x times the square root of r >= 1
Root(x, r) ==
    IF x.n = 0 \/ r = 1 THEN x
    ELSE LET k == SquarePart(r)
         IN  [Frac(x.n * k, x.d, x.c) EXCEPT !.r = r \div (k * k)]

\* Math.sqrt of a natural number
SquareRoot(s) == IF IsSquare(s) THEN Num(MathSqrt(s)) ELSE Root(Num(1), s)

IsNaN(x) == x.d = 0 /\ x.n = 0

IsFinite(x) == x.d # 0

Sign(x) == IF x.n > 0 THEN 1 ELSE IF x.n < 0 THEN -1 ELSE 0

\* a * b
Times(a, b) ==
    IF IsNaN(a) \/ IsNaN(b) THEN NaN
    ELSE IF IsFinite(a) /\ IsFinite(b)
         THEN IF a.r = b.r THEN Frac(a.n * b.n * a.r, a.d * b.d, a.c + b.c)
              ELSE Root(Frac(a.n * b.n, a.d * b.d, a.c + b.c), a.r * b.r)
    ELSE IF Sign(a) * Sign(b) = 0 THEN NaN
    ELSE Infinity(Sign(a) * Sign(b))

\* a / b, with JavaScript's division by zero
Divide(a, b) ==
    IF IsNaN(a) \/ IsNaN(b) THEN NaN
    ELSE IF IsFinite(a) /\ IsFinite(b)
         THEN IF b.n = 0 THEN (IF a.n = 0 THEN NaN ELSE Infinity(Sign(a)))
              ELSE IF a.r = b.r THEN Frac(a.n * b.d, a.d * b.n, a.c - b.c)
              ELSE Root(Frac(a.n * b.d, a.d * b.n * b.r, a.c - b.c), a.r * b.r)
    ELSE IF ~IsFinite(a) /\ ~IsFinite(b) THEN NaN
    ELSE IF ~IsFinite(a) THEN Infinity(IF b.n < 0 THEN -Sign(a) ELSE Sign(a))
    ELSE Num(0)

\* a + b and a - b for two numbers of the same unit and the same root
Plus(a, b) ==
    IF IsNaN(a) \/ IsNaN(b) THEN NaN
    ELSE IF IsFinite(a) /\ IsFinite(b)
         THEN Root(Frac(a.n * b.d + b.n * a.d, a.d * b.d, a.c), a.r)
    ELSE IF ~IsFinite(a) /\ ~IsFinite(b)
         THEN IF Sign(a) = Sign(b) THEN a ELSE NaN
    ELSE IF ~IsFinite(a) THEN a
    ELSE b

Minus(a, b) ==
    IF IsNaN(a) \/ IsNaN(b) THEN NaN
    ELSE IF IsFinite(a) /\ IsFinite(b)
         THEN Root(Frac(a.n * b.d - b.n * a.d, a.d * b.d, a.c), a.r)
    ELSE IF ~IsFinite(a) /\ ~IsFinite(b)
         THEN IF Sign(a) = Sign(b) THEN NaN ELSE a
    ELSE IF ~IsFinite(a) THEN a
    ELSE Infinity(-Sign(b))

\* Math.abs
MathAbs(x) == [x EXCEPT !.n = AbsInt(x.n)]

\* x < y for the integers x and y times the square roots of r and s
LessRoots(x, r, y, s) ==
    IF x < 0 /\ y < 0 THEN x * x * r > y * y * s
    ELSE IF x < 0 \/ y < 0 THEN x < y
    ELSE x * x * r < y * y * s

\* a < b for two numbers of the same unit, neither NaN
LessSameUnit(a, b) ==
    IF IsFinite(a) /\ IsFinite(b)
    THEN IF a.r = b.r THEN a.n * b.d < b.n * a.d
         ELSE LessRoots(a.n * b.d, a.r, b.n * a.d, b.r)
    ELSE IF ~IsFinite(a) /\ ~IsFinite(b) THEN Sign(a) < Sign(b)
    ELSE IF ~IsFinite(a) THEN Sign(a) < 0
    ELSE Sign(b) > 0

\* Math.min and Math.max: NaN if either argument is NaN
MathMin(a, b) ==
    IF IsNaN(a) \/ IsNaN(b) THEN NaN ELSE IF LessSameUnit(b, a) THEN b ELSE a

MathMax(a, b) ==
    IF IsNaN(a) \/ IsNaN(b) THEN NaN ELSE IF LessSameUnit(a, b) THEN b ELSE a

\* CALIBRATION_FACTOR = 0.264583333 = CalibrationNano / NanoPerUnit
CalibrationNano == 264583333

NanoPerUnit == 1000000000

CALIBRATION_FACTOR == [n |-> 1, d |-> 1, c |-> 1, r |-> 1]

\* the product a * b of two naturals below 2^30, as three digits
\* <<high, middle, low>> in base 2^15 (the product does not fit a machine
\* integer of the checker)
Product(a, b) ==
    LET B  == 32768
        p0 == (a % B) * (b % B)
        p1 == (a \div B) * (b % B) + (a % B) * (b \div B) + (p0 \div B)
        p2 == (a \div B) * (b \div B) + (p1 \div B)
    IN  <<p2, p1 % B, p0 % B>>

ProductLess(p, q) ==
    \/ p[1] < q[1]
    \/ p[1] = q[1] /\ p[2] < q[2]
    \/ p[1] = q[1] /\ p[2] = q[2] /\ p[3] < q[3]

\* x < t and x > t for a non-negative number x without a root and an
\* integer t >= 0; false for NaN, as every comparison with NaN is
LessThan(x, t) ==
    IF IsNaN(x) THEN FALSE
    ELSE IF ~IsFinite(x) THEN Sign(x) < 0
    ELSE IF x.c = 0 THEN x.n < t * x.d
    ELSE ProductLess(Product(x.n, CalibrationNano), Product(t * x.d, NanoPerUnit))

GreaterThan(x, t) ==
    IF IsNaN(x) THEN FALSE
    ELSE IF ~IsFinite(x) THEN Sign(x) > 0
    ELSE IF x.c = 0 THEN x.n > t * x.d
    ELSE ProductLess(Product(t * x.d, NanoPerUnit), Product(x.n, CalibrationNano))

-----------------------------------------------------------------------------
(* Inputs of the measurement engine *)

\* pixel coordinates of the landmark points
LandmarkXs == {0, 80, 105, 160, 192, 210}

LandmarkYs == {0, 84, 88, 168}

Points == [x : LandmarkXs, y : LandmarkYs]

SquaredDistance(p1, p2) ==
    (p2.x - p1.x) * (p2.x - p1.x) + (p2.y - p1.y) * (p2.y - p1.y)

\* the landmark sets whose three pairwise distances are whole pixels, so
\* that every square root the engine takes is exact
LandmarkSets ==
    { l \in [leftEye : Points, rightEye : Points, nose : Points] :
        /\ IsSquare(SquaredDistance(l.leftEye, l.rightEye))
        /\ IsSquare(SquaredDistance(l.leftEye, l.nose))
        /\ IsSquare(SquaredDistance(l.rightEye, l.nose)) }

\* a face in a 640 x 480 image: the eyes level and 60 pixels apart, the nose
\* 30 pixels below their midpoint
ExampleLandmarks ==
    [leftEye |-> [x |-> 100, y |-> 100], rightEye |-> [x |-> 160, y |-> 100],
     nose |-> [x |-> 130, y |-> 130]]

\* the landmark sets handed to calculateMeasurements: in each the distance
\* between the eyes is whole pixels
EngineLandmarkSets == LandmarkSets \cup {ExampleLandmarks}

\* image widths and heights handed to calculateMeasurements, which accepts
\* any number
Widths == {0, 100, 640, 960, 1050}

Heights == {0, 480, 720}

\* The identifier `landmarks` in calculateDistanceCorrection is not a
\* parameter of that function and is not declared in its module.  It is
\* either unbound when the line runs (a ReferenceError) or bound, around
\* the module, to the landmark set being measured.
Unbound == [bound |-> FALSE]

BoundTo(l) == [bound |-> TRUE, landmarks |-> l]

-----------------------------------------------------------------------------
(* utils/measurementCalculations *)

calculateDistance(point1, point2) == SquareRoot(SquaredDistance(point1, point2))

\* Math.atan2(dy, dx), kept as the direction it denotes; atan2(0, 0) = 0
calculateAngle(point1, point2) ==
    LET dx  == point2.x - point1.x
        dy  == point2.y - point1.y
        len == MathSqrt(dx * dx + dy * dy)
    IN  [dx |-> dx, dy |-> dy,
         cos |-> IF len = 0 THEN Num(1) ELSE Frac(dx, len, 0),
         sin |-> IF len = 0 THEN Num(0) ELSE Frac(dy, len, 0)]

MathCos(angle) == angle.cos

MathSin(angle) == angle.sin

\* mutant: the face is expected to fill half of the image width
correctionFactorHalfWidth(imageWidth, landmarks) ==
    LET expectedFaceWidth == Times(Num(imageWidth), Frac(5, 10, 0))
        actualFaceWidth ==
            Times(MathAbs(Minus(Num(landmarks.rightEye.x), Num(landmarks.leftEye.x))),
                  Num(3))
    IN  Divide(expectedFaceWidth, actualFaceWidth)

\* expectedFaceWidth / actualFaceWidth, before it is limited
correctionFactor(imageWidth, landmarks) ==
    LET expectedFaceWidth == Times(Num(imageWidth), Frac(6, 10, 0))
        actualFaceWidth ==
            Times(MathAbs(Minus(Num(landmarks.rightEye.x), Num(landmarks.leftEye.x))),
                  Num(3))
    IN  Divide(expectedFaceWidth, actualFaceWidth)

\* mutant: the factor is not limited
calculateDistanceCorrectionUnlimited(imageWidth, imageHeight, scope) ==
    IF ~scope.bound THEN Throw("ReferenceError")
    ELSE Return(correctionFactor(imageWidth, scope.landmarks))

calculateDistanceCorrection(imageWidth, imageHeight, scope) ==
    IF ~scope.bound THEN Throw("ReferenceError")
    ELSE Return(MathMax(Frac(1, 2, 0),
                        MathMin(Num(2), correctionFactor(imageWidth, scope.landmarks))))

\* mutant: the two products are added instead of subtracted
PupilHeightSum(eye, nose, eyeLineAngle) ==
    MathAbs(Minus(Times(Num(eye.y - nose.y), MathCos(eyeLineAngle)),
                  Times(Num(nose.x - eye.x), MathSin(eyeLineAngle))))

\* the pupillary height of one eye before calibration and correction
PupilHeight(eye, nose, eyeLineAngle) ==
    MathAbs(Minus(Times(Num(eye.y - nose.y), MathCos(eyeLineAngle)),
                  Times(Num(eye.x - nose.x), MathSin(eyeLineAngle))))

calculateMeasurements(landmarks, imageWidth, imageHeight, scope) ==
    LET dp == Times(calculateDistance(landmarks.leftEye, landmarks.rightEye),
                    CALIBRATION_FACTOR)
        dpnLeft == Times(calculateDistance(landmarks.leftEye, landmarks.nose),
                         CALIBRATION_FACTOR)
        dpnRight == Times(calculateDistance(landmarks.rightEye, landmarks.nose),
                          CALIBRATION_FACTOR)
        eyeLineAngle == calculateAngle(landmarks.leftEye, landmarks.rightEye)
        apLeft == Times(PupilHeight(landmarks.leftEye, landmarks.nose, eyeLineAngle),
                        CALIBRATION_FACTOR)
        apRight == Times(PupilHeight(landmarks.rightEye, landmarks.nose, eyeLineAngle),
                         CALIBRATION_FACTOR)
    IN  Const(calculateDistanceCorrection(imageWidth, imageHeight, scope),
              LAMBDA distanceCorrection :
                IF distanceCorrection.kind = "throw" THEN distanceCorrection
                ELSE Return([dp       |-> Times(dp, distanceCorrection.value),
                             dpnLeft  |-> Times(dpnLeft, distanceCorrection.value),
                             dpnRight |-> Times(dpnRight, distanceCorrection.value),
                             apLeft   |-> Times(apLeft, distanceCorrection.value),
                             apRight  |-> Times(apRight, distanceCorrection.value)]))

\* validateMeasurements: the error list, each message by a short name
\*   "dp_range"        A distancia pupilar (DP) esta fora do intervalo normal (50-80mm)
\*   "dpnLeft_range"   ... nasal esquerda ... (25-40mm)
\*   "dpnRight_range"  ... nasal direita ... (25-40mm)
\*   "apLeft_range"    A altura pupilar esquerda ... (20-35mm)
\*   "apRight_range"   A altura pupilar direita ... (20-35mm)
\*   "dpn_asymmetry"   Ha uma diferenca significativa entre as distancias pupilares nasais
\*   "ap_asymmetry"    Ha uma diferenca significativa entre as alturas pupilares
PushIf(condition, list, message) == IF condition THEN Append(list, message) ELSE list

validateMeasurements(measurements) ==
    LET e1 == PushIf(LessThan(measurements.dp, 50) \/ GreaterThan(measurements.dp, 80),
                     <<>>, "dp_range")
        e2 == PushIf(LessThan(measurements.dpnLeft, 25) \/ GreaterThan(measurements.dpnLeft, 40),
                     e1, "dpnLeft_range")
        e3 == PushIf(LessThan(measurements.dpnRight, 25) \/ GreaterThan(measurements.dpnRight, 40),
                     e2, "dpnRight_range")
        e4 == PushIf(LessThan(measurements.apLeft, 20) \/ GreaterThan(measurements.apLeft, 35),
                     e3, "apLeft_range")
        e5 == PushIf(LessThan(measurements.apRight, 20) \/ GreaterThan(measurements.apRight, 35),
                     e4, "apRight_range")
        e6 == PushIf(GreaterThan(MathAbs(Minus(measurements.dpnLeft, measurements.dpnRight)), 2),
                     e5, "dpn_asymmetry")
        e7 == PushIf(GreaterThan(MathAbs(Minus(measurements.apLeft, measurements.apRight)), 2),
                     e6, "ap_asymmetry")
    IN  [isValid |-> Len(e7) = 0, errors |-> e7]

-----------------------------------------------------------------------------
(* services/measurementService: the warnings *)

\* generateWarnings: the warning list, each message by a short name
\*   "quality_low"     A qualidade da imagem esta baixa. ...
\*   "low_confidence"  A deteccao facial nao esta muito precisa. ...
\*   "dpn_asymmetry"   Ha uma diferenca significativa entre as medicoes dos olhos ...
\*   "ap_asymmetry"    Ha uma diferenca significativa entre as alturas das pupilas.
\*   "dp_range" ... "apRight_range"   ... esta fora do intervalo normal.
\* in its three blocks; confidence is in hundredths

\* mutant: a confidence of exactly 0.7 is warned about too
qualityWarningsAtMost(quality, confidence) ==
    LET w1 == PushIf(quality = "low", <<>>, "quality_low")
        w2 == PushIf(confidence <= 70, w1, "low_confidence")
    IN  w2

\* "Avisos de qualidade" and "Avisos de confianca"
qualityWarnings(quality, confidence) ==
    LET w1 == PushIf(quality = "low", <<>>, "quality_low")
        w2 == PushIf(confidence < 70, w1, "low_confidence")
    IN  w2

\* mutant: the asymmetry threshold is 3 mm
asymmetryWarningsAboveThree(measurements, warnings) ==
    LET w3 == PushIf(GreaterThan(MathAbs(Minus(measurements.dpnLeft, measurements.dpnRight)), 3),
                     warnings, "dpn_asymmetry")
        w4 == PushIf(GreaterThan(MathAbs(Minus(measurements.apLeft, measurements.apRight)), 3),
                     w3, "ap_asymmetry")
    IN  w4

\* "Avisos de medicoes"
asymmetryWarnings(measurements, warnings) ==
    LET w3 == PushIf(GreaterThan(MathAbs(Minus(measurements.dpnLeft, measurements.dpnRight)), 2),
                     warnings, "dpn_asymmetry")
        w4 == PushIf(GreaterThan(MathAbs(Minus(measurements.apLeft, measurements.apRight)), 2),
                     w3, "ap_asymmetry")
    IN  w4

\* "Verificar valores fora do normal"
rangeWarnings(measurements, warnings) ==
    LET w5 == PushIf(LessThan(measurements.dp, 55) \/ GreaterThan(measurements.dp, 75),
                     warnings, "dp_range")
        w6 == PushIf(LessThan(measurements.dpnLeft, 27) \/ GreaterThan(measurements.dpnLeft, 37),
                     w5, "dpnLeft_range")
        w7 == PushIf(LessThan(measurements.dpnRight, 27) \/ GreaterThan(measurements.dpnRight, 37),
                     w6, "dpnRight_range")
        w8 == PushIf(LessThan(measurements.apLeft, 22) \/ GreaterThan(measurements.apLeft, 32),
                     w7, "apLeft_range")
        w9 == PushIf(LessThan(measurements.apRight, 22) \/ GreaterThan(measurements.apRight, 32),
                     w8, "apRight_range")
    IN  w9

\* mutant: the confidence is not looked at
generateWarningsWithoutConfidence(measurements, quality, confidence) ==
    rangeWarnings(measurements,
                  asymmetryWarnings(measurements, qualityWarnings(quality, 100)))

generateWarnings(measurements, quality, confidence) ==
    rangeWarnings(measurements,
        asymmetryWarnings(measurements, qualityWarnings(quality, confidence)))

-----------------------------------------------------------------------------
(* Images.  A decoded image is its size and the two pixel statistics the  *)
(* scorers derive from its pixel buffer, in hundredths: the average luma  *)
(* and the average neighbour difference.  A call may also fail: loading   *)
(* the image rejects, or reading the pixel buffer throws.                 *)

ImageWidths == {600, 960, 1050}

ImageHeights == {240, 720}

BrightnessLevels == {25, 35, 60, 95}

SharpnessLevels == {30, 60, 80}

Images == [width : ImageWidths, height : ImageHeights,
           brightness : BrightnessLevels, sharpness : SharpnessLevels]

Faults == {"none", "loadImage", "getImageData"}

-----------------------------------------------------------------------------
(* utils/imageProcessing: the image quality scorer *)

\* mutant: the borderline floor of the weighted grade is used
analyzeResolutionThreeQuarters(width, height) ==
    [width |-> width, height |-> height,
     isGood |-> 4 * (width * height) >= 3 * (640 * 480)]

analyzeResolution(width, height) ==
    LET minResolution == 640 * 480
        currentResolution == width * height
    IN  [width |-> width, height |-> height,
         isGood |-> currentResolution >= minResolution]

analyzeBrightness(image) ==
    LET averageBrightness == image.brightness
    IN  [value |-> averageBrightness,
         isGood |-> averageBrightness >= 30 /\ averageBrightness <= 90]

analyzeSharpness(image) ==
    LET averageSharpness == image.sharpness
    IN  [value |-> averageSharpness, isGood |-> averageSharpness >= 50]

\* mutant: only three good metrics make "high"
determineQualityAllGood(resolution, brightness, sharpness) ==
    LET goodCount == Len(SelectSeq(<<resolution, brightness, sharpness>>,
                                   LAMBDA metric : metric.isGood))
    IN  IF goodCount = 3 THEN "high"
        ELSE IF goodCount >= 1 THEN "medium"
        ELSE "low"

\* mutant: a single good metric is not enough for "medium"
determineQualityTwoLevels(resolution, brightness, sharpness) ==
    LET goodCount == Len(SelectSeq(<<resolution, brightness, sharpness>>,
                                   LAMBDA metric : metric.isGood))
    IN  IF goodCount >= 2 THEN "high" ELSE "low"

determineQuality(resolution, brightness, sharpness) ==
    LET goodCount == Len(SelectSeq(<<resolution, brightness, sharpness>>,
                                   LAMBDA metric : metric.isGood))
    IN  IF goodCount >= 2 THEN "high"
        ELSE IF goodCount = 1 THEN "medium"
        ELSE "low"

\* A message is one of three fixed texts; the second is followed by the
\* issues, joined by ", ":
\*   "good"     A qualidade da imagem esta boa.
\*   "improve"  A qualidade da imagem precisa melhorar: <issues>.
\*   "error"    Erro ao processar imagem
\* with the issues "resolucao baixa", "iluminacao inadequada" and
\* "imagem desfocada".
\* mutant: a high grade gets the affirmative message
generateQualityMessageByGrade(quality, metrics) ==
    LET i1 == PushIf(~metrics.resolution.isGood, <<>>, "resolucao baixa")
        i2 == PushIf(~metrics.brightness.isGood, i1, "iluminacao inadequada")
        i3 == PushIf(~metrics.sharpness.isGood, i2, "imagem desfocada")
    IN  IF Len(i3) = 0 \/ quality = "high" THEN [text |-> "good", issues |-> <<>>]
        ELSE [text |-> "improve", issues |-> i3]

generateQualityMessage(quality, metrics) ==
    LET i1 == PushIf(~metrics.resolution.isGood, <<>>, "resolucao baixa")
        i2 == PushIf(~metrics.brightness.isGood, i1, "iluminacao inadequada")
        i3 == PushIf(~metrics.sharpness.isGood, i2, "imagem desfocada")
    IN  IF Len(i3) = 0 THEN [text |-> "good", issues |-> <<>>]
        ELSE [text |-> "improve", issues |-> i3]

\* the message contains the phrase
MessageIncludes(message, phrase) ==
    \E i \in 1..Len(message.issues) : message.issues[i] = phrase

\* the report of the catch block
UnprocessableReport ==
    [isGood |-> FALSE, message |-> [text |-> "error", issues |-> <<>>],
     quality |-> "low",
     details |-> [resolution |-> [width |-> 0, height |-> 0, isGood |-> FALSE],
                  brightness |-> [value |-> 0, isGood |-> FALSE],
                  sharpness |-> [value |-> 0, isGood |-> FALSE],
                  faceAngle |-> [value |-> 0, isGood |-> FALSE]]]

\* the body of the try block
validateImageQualityAttempt(image, fault) ==
    IF fault # "none" THEN Throw(fault)
    ELSE
    LET resolution == analyzeResolution(image.width, image.height)
        brightness == analyzeBrightness(image)
        sharpness  == analyzeSharpness(image)
        quality    == determineQuality(resolution, brightness, sharpness)
        message    == generateQualityMessage(quality,
                          [resolution |-> resolution, brightness |-> brightness,
                           sharpness |-> sharpness])
    IN  Return([isGood |-> quality # "low", message |-> message, quality |-> quality,
                details |-> [resolution |-> resolution, brightness |-> brightness,
                             sharpness |-> sharpness,
                             faceAngle |-> [value |-> 0, isGood |-> TRUE]]])

\* mutant: isGood is decided by the resolution alone
validateImageQualityByResolution(image, fault) ==
    Const(TryCatch(validateImageQualityAttempt(image, fault), Return(UnprocessableReport)),
          LAMBDA r : Return([r.value EXCEPT !.isGood = r.value.details.resolution.isGood]))

validateImageQuality(image, fault) ==
    TryCatch(validateImageQualityAttempt(image, fault), Return(UnprocessableReport))

-----------------------------------------------------------------------------
(* services/measurementService: the weighted quality grade *)

\* the eye-line angle in degrees, kept as the direction it denotes
calculateFaceAngle(landmarks) == calculateAngle(landmarks.leftEye, landmarks.rightEye)

\* Math.abs(faceAngle) <= degrees, for the two bands the grade uses: the
\* direction (dx, dy) is within 5 (15) degrees of the positive x axis when
\* |dy| / dx is at most tan 5 = 0.087488... (tan 15 = 0.267949...)
AbsDegreesAtMost(faceAngle, degrees) ==
    LET tangentMicro == IF degrees = 5 THEN 87488 ELSE 267949
    IN  \/ faceAngle.dx = 0 /\ faceAngle.dy = 0
        \/ /\ faceAngle.dx > 0
           /\ AbsInt(faceAngle.dy) * 1000000 <= tangentMicro * faceAngle.dx

Points2(strong, borderline) == IF strong THEN 2 ELSE IF borderline THEN 1 ELSE 0

\* mutant: 6 points are enough for "high"
assessImageQualityAttemptFromSix(image, landmarks, fault) ==
    IF fault # "none" THEN Throw(fault)
    ELSE
    LET minResolution == 640 * 480
        resolution == image.width * image.height
        brightness == image.brightness
        sharpness  == image.sharpness
        faceAngle  == calculateFaceAngle(landmarks)
        score ==
            Points2(resolution >= minResolution, 4 * resolution >= 3 * minResolution)
          + Points2(brightness >= 40 /\ brightness <= 80,
                    brightness >= 30 /\ brightness <= 90)
          + Points2(sharpness >= 70, sharpness >= 50)
          + Points2(AbsDegreesAtMost(faceAngle, 5), AbsDegreesAtMost(faceAngle, 15))
    IN  IF score >= 6 THEN Return("high")
        ELSE IF score >= 4 THEN Return("medium")
        ELSE Return("low")

\* the body of the try block
assessImageQualityAttempt(image, landmarks, fault) ==
    IF fault # "none" THEN Throw(fault)
    ELSE
    LET minResolution == 640 * 480
        resolution == image.width * image.height
        brightness == image.brightness
        sharpness  == image.sharpness
        faceAngle  == calculateFaceAngle(landmarks)
        score ==
            Points2(resolution >= minResolution, 4 * resolution >= 3 * minResolution)
          + Points2(brightness >= 40 /\ brightness <= 80,
                    brightness >= 30 /\ brightness <= 90)
          + Points2(sharpness >= 70, sharpness >= 50)
          + Points2(AbsDegreesAtMost(faceAngle, 5), AbsDegreesAtMost(faceAngle, 15))
    IN  IF score >= 7 THEN Return("high")
        ELSE IF score >= 4 THEN Return("medium")
        ELSE Return("low")

\* mutant: the grade is the one of the count of good metrics
assessImageQualityByCount(image, landmarks, fault) ==
    TryCatch(IF fault # "none" THEN Throw(fault)
             ELSE Return(determineQuality(analyzeResolution(image.width, image.height),
                                          analyzeBrightness(image),
                                          analyzeSharpness(image))),
             Return("low"))

\* mutant: the failure is not caught
assessImageQualityUncaught(image, landmarks, fault) ==
    assessImageQualityAttempt(image, landmarks, fault)

assessImageQuality(image, landmarks, fault) ==
    TryCatch(assessImageQualityAttempt(image, landmarks, fault), Return("low"))

-----------------------------------------------------------------------------
(* services/measurementService: analyzeMeasurements *)

\* the landmark object of a request carries the detection confidence
WithConfidence(l, confidence) ==
    [leftEye |-> l.leftEye, rightEye |-> l.rightEye, nose |-> l.nose,
     confidence |-> confidence]

analyzeMeasurements(image, landmarks, fault, scope) ==
    IF fault = "loadImage" THEN Throw("Falha ao analisar medicoes")
    ELSE
    LET imageWidth  == image.width
        imageHeight == image.height
    IN  Const(calculateMeasurements(landmarks, imageWidth, imageHeight, scope),
              LAMBDA measurements :
                IF measurements.kind = "throw" THEN Throw("Falha ao analisar medicoes")
                ELSE
                LET quality  == assessImageQuality(image, landmarks, fault).value
                    warnings == generateWarnings(measurements.value, quality,
                                                 landmarks.confidence)
                IN  Return([dp         |-> measurements.value.dp,
                            dpnLeft    |-> measurements.value.dpnLeft,
                            dpnRight   |-> measurements.value.dpnRight,
                            apLeft     |-> measurements.value.apLeft,
                            apRight    |-> measurements.value.apRight,
                            quality    |-> quality,
                            confidence |-> landmarks.confidence,
                            warnings   |-> warnings]))

-----------------------------------------------------------------------------
(* routes/measurements: POST /analyze-advanced *)

\* z.number().min(lo).max(hi): a number, not NaN, within [lo, hi]
SchemaNumber(x, lo, hi) ==
    ~IsNaN(x) /\ ~LessThan(x, lo) /\ ~GreaterThan(x, hi)

\* mutant: the schema has no ranges
measurementSchemaParseAny(input) == Return(input)

\* measurementSchema.parse on the fields analyzeMeasurements produces
measurementSchemaParse(input) ==
    Const(input, LAMBDA data :
    IF /\ SchemaNumber(data.dp, 50, 80)
       /\ SchemaNumber(data.dpnLeft, 25, 40)
       /\ SchemaNumber(data.dpnRight, 25, 40)
       /\ SchemaNumber(data.apLeft, 20, 35)
       /\ SchemaNumber(data.apRight, 20, 35)
       /\ data.type \in {"manual", "digital"}
       /\ data.quality \in {"high", "medium", "low"}
    THEN Return(data)
    ELSE Throw("ZodError"))

Respond(status, body) == [kind |-> "response", status |-> status, body |-> body]

\* the handler behind authenticateToken, for a body with or without its two
\* fields
analyzeAdvanced(body, fault, scope) ==
    IF ~body.hasImage \/ ~body.hasLandmarks
    THEN Respond(400, [error |-> "Dados incompletos"])
    ELSE
    Const(analyzeMeasurements(body.image, body.landmarks, fault, scope),
          LAMBDA measurements :
            IF measurements.kind = "throw"
            THEN Respond(500, [error |-> "Erro ao analisar medicoes"])
            ELSE
            Const(measurementSchemaParse(
                      [dp         |-> measurements.value.dp,
                       dpnLeft    |-> measurements.value.dpnLeft,
                       dpnRight   |-> measurements.value.dpnRight,
                       apLeft     |-> measurements.value.apLeft,
                       apRight    |-> measurements.value.apRight,
                       quality    |-> measurements.value.quality,
                       confidence |-> measurements.value.confidence,
                       warnings   |-> measurements.value.warnings,
                       type       |-> "digital"]),
                  LAMBDA validatedMeasurements :
                    IF validatedMeasurements.kind = "throw"
                    THEN Respond(400, [error |-> "Medicoes fora dos limites aceitaveis"])
                    ELSE Respond(200, validatedMeasurements.value)))

-----------------------------------------------------------------------------
(* utils/geometry *)

\* pixel coordinates of the points handed to the geometry functions
GeometryXs == {-3, 0, 1, 4}

GeometryYs == {-4, 0, 2, 3}

GeometryPoints == [x : GeometryXs, y : GeometryYs]

\* rotation angles in degrees: the quarter turns
Turns == {-90, 0, 90, 180, 270, 360}

\* mutant: point1.y is not subtracted
geometryCalculateDistanceFromAxis(point1, point2) ==
    LET dx == point2.x - point1.x
        dy == point2.y
    IN  SquareRoot(dx * dx + dy * dy)

\* calculateDistance of utils/geometry
geometryCalculateDistance(point1, point2) ==
    LET dx == point2.x - point1.x
        dy == point2.y - point1.y
    IN  SquareRoot(dx * dx + dy * dy)

\* (angle * Math.PI) / 180 for a quarter turn, kept as the direction it
\* denotes
Radians(angle) ==
    LET quarter == (angle \div 90) % 4
    IN  [cos |-> Num(IF quarter = 0 THEN 1 ELSE IF quarter = 2 THEN -1 ELSE 0),
         sin |-> Num(IF quarter = 1 THEN 1 ELSE IF quarter = 3 THEN -1 ELSE 0)]

\* mutant: the center is not added back
rotatePointAboutOrigin(point, center, angle) ==
    LET radians == Radians(angle)
        cos == MathCos(radians)
        sin == MathSin(radians)
        dx  == Num(point.x - center.x)
        dy  == Num(point.y - center.y)
    IN  [x |-> Minus(Times(dx, cos), Times(dy, sin)),
         y |-> Plus(Times(dx, sin), Times(dy, cos))]

rotatePoint(point, center, angle) ==
    LET radians == Radians(angle)
        cos == MathCos(radians)
        sin == MathSin(radians)
        dx  == Num(point.x - center.x)
        dy  == Num(point.y - center.y)
    IN  [x |-> Minus(Plus(Num(center.x), Times(dx, cos)), Times(dy, sin)),
         y |-> Plus(Plus(Num(center.y), Times(dx, sin)), Times(dy, cos))]

NotANumber == [kind |-> "NaN"]

\* an angle of at least lo and at most hi degrees
Degrees(lo, hi) == [kind |-> "degrees", lo |-> lo, hi |-> hi]

\* (Math.acos(cos) * 180) / Math.PI: NaN for NaN and outside [-1, 1]; 0, 90
\* and 180 for 1, 0 and -1; an acute angle for the other positive cosines
\* and an obtuse one for the other negative cosines
AcosDegrees(cos) ==
    IF IsNaN(cos) \/ LessSameUnit(cos, Num(-1)) \/ LessSameUnit(Num(1), cos)
    THEN NotANumber
    ELSE IF cos = Num(1) THEN Degrees(0, 0)
    ELSE IF cos = Num(0) THEN Degrees(90, 90)
    ELSE IF cos = Num(-1) THEN Degrees(180, 180)
    ELSE IF cos.n > 0 THEN Degrees(0, 90)
    ELSE Degrees(90, 180)

\* mutant: the second ray is taken from point1
calculateAngleBetweenPointsFromFirst(point1, vertex, point2) ==
    LET v1 == [x |-> point1.x - vertex.x, y |-> point1.y - vertex.y]
        v2 == [x |-> point2.x - point1.x, y |-> point2.y - point1.y]
        dot   == v1.x * v2.x + v1.y * v2.y
        v1mag == SquareRoot(v1.x * v1.x + v1.y * v1.y)
        v2mag == SquareRoot(v2.x * v2.x + v2.y * v2.y)
        cos   == Divide(Num(dot), Times(v1mag, v2mag))
    IN  AcosDegrees(MathMax(Num(-1), MathMin(Num(1), cos)))

calculateAngleBetweenPoints(point1, vertex, point2) ==
    LET v1 == [x |-> point1.x - vertex.x, y |-> point1.y - vertex.y]
        v2 == [x |-> point2.x - vertex.x, y |-> point2.y - vertex.y]
        dot   == v1.x * v2.x + v1.y * v2.y
        v1mag == SquareRoot(v1.x * v1.x + v1.y * v1.y)
        v2mag == SquareRoot(v2.x * v2.x + v2.y * v2.y)
        cos   == Divide(Num(dot), Times(v1mag, v2mag))
    IN  AcosDegrees(MathMax(Num(-1), MathMin(Num(1), cos)))

\* null
Null == [kind |-> "null"]

\* x < t and x > t for a number x without a root and an integer t
Below(x, t) == ~IsNaN(x) /\ LessSameUnit(x, Num(t))

Above(x, t) == ~IsNaN(x) /\ LessSameUnit(Num(t), x)

\* mutant: the parameter on the second segment is not looked at
calculateLineIntersectionOnFirst(line1Start, line1End, line2Start, line2End) ==
    LET denominator ==
            (line2End.y - line2Start.y) * (line1End.x - line1Start.x)
          - (line2End.x - line2Start.x) * (line1End.y - line1Start.y)
        ua == Divide(Num((line2End.x - line2Start.x) * (line1Start.y - line2Start.y)
                       - (line2End.y - line2Start.y) * (line1Start.x - line2Start.x)),
                     Num(denominator))
    IN  IF denominator = 0 THEN Null
        ELSE IF Below(ua, 0) \/ Above(ua, 1) THEN Null
        ELSE [x |-> Plus(Num(line1Start.x), Times(ua, Num(line1End.x - line1Start.x))),
              y |-> Plus(Num(line1Start.y), Times(ua, Num(line1End.y - line1Start.y)))]

calculateLineIntersection(line1Start, line1End, line2Start, line2End) ==
    LET denominator ==
            (line2End.y - line2Start.y) * (line1End.x - line1Start.x)
          - (line2End.x - line2Start.x) * (line1End.y - line1Start.y)
        ua == Divide(Num((line2End.x - line2Start.x) * (line1Start.y - line2Start.y)
                       - (line2End.y - line2Start.y) * (line1Start.x - line2Start.x)),
                     Num(denominator))
        ub == Divide(Num((line1End.x - line1Start.x) * (line1Start.y - line2Start.y)
                       - (line1End.y - line1Start.y) * (line1Start.x - line2Start.x)),
                     Num(denominator))
    IN  IF denominator = 0 THEN Null
        ELSE IF Below(ua, 0) \/ Above(ua, 1) \/ Below(ub, 0) \/ Above(ub, 1) THEN Null
        ELSE [x |-> Plus(Num(line1Start.x), Times(ua, Num(line1End.x - line1Start.x))),
              y |-> Plus(Num(line1Start.y), Times(ua, Num(line1End.y - line1Start.y)))]

calculateProjection(lineStart, lineEnd, point) ==
    LET dx == lineEnd.x - lineStart.x
        dy == lineEnd.y - lineStart.y
        length == dx * dx + dy * dy
        t == MathMax(Num(0),
                     MathMin(Num(1),
                             Divide(Num((point.x - lineStart.x) * dx
                                      + (point.y - lineStart.y) * dy),
                                    Num(length))))
    IN  [x |-> Plus(Num(lineStart.x), Times(t, Num(dx))),
         y |-> Plus(Num(lineStart.y), Times(t, Num(dy)))]

\* calculateDistance of utils/geometry for two points whose coordinates
\* are fractions: the differences are brought to one denominator
calculateDistanceOfFractions(point1, point2) ==
    LET dx == Minus(point2.x, point1.x)
        dy == Minus(point2.y, point1.y)
        denominator == (dx.d * dy.d) \div Gcd(dx.d, dy.d)
        a == dx.n * (denominator \div dx.d)
        b == dy.n * (denominator \div dy.d)
    IN  IF IsNaN(dx) \/ IsNaN(dy) THEN NaN
        ELSE Divide(SquareRoot(a * a + b * b), Num(denominator))

calculatePointToLineDistance(lineStart, lineEnd, point) ==
    LET dx == lineEnd.x - lineStart.x
        dy == lineEnd.y - lineStart.y
        length == SquareRoot(dx * dx + dy * dy)
        t == MathMax(Num(0),
                     MathMin(Num(1),
                             Divide(Num((point.x - lineStart.x) * dx
                                      + (point.y - lineStart.y) * dy),
                                    Times(length, length))))
        projection == [x |-> Plus(Num(lineStart.x), Times(t, Num(dx))),
                       y |-> Plus(Num(lineStart.y), Times(t, Num(dy)))]
    IN  IF length = Num(0) THEN geometryCalculateDistance(lineStart, point)
        ELSE calculateDistanceOfFractions([x |-> Num(point.x), y |-> Num(point.y)],
                                          projection)

-----------------------------------------------------------------------------
(* The sharpness of a pixel buffer.  A buffer is the RGBA bytes of the    *)
(* image row by row, numbered from 0.                                     *)

\* the channel values the buffers below use
ChannelLevels == {0, 9, 27}

Opaque == 255

\* the buffer of a width x height image whose pixels are black except the
\* pixels in the domain of colours, given as <<red, green, blue>>
PixelData(width, height, colours) ==
    [i \in 0..(width * height * 4 - 1) |->
        IF i % 4 = 3 THEN Opaque
        ELSE IF (i \div 4) \in DOMAIN colours THEN colours[i \div 4][(i % 4) + 1]
        ELSE 0]

\* 3 x 3 images: the one interior pixel (index 4), its right (5) and its
\* lower (7) neighbour in every combination of the channel levels
Colours == [1..3 -> ChannelLevels]

SmallBuffers ==
    { [width |-> 3, height |-> 3,
       data |-> PixelData(3, 3, (4 :> centre) @@ (5 :> right) @@ (7 :> below))] :
        centre \in Colours, right \in Colours, below \in Colours }

\* 4 x 3 images of grey pixels, images without an interior pixel and the
\* empty image
Grey(level) == <<level, level, level>>

OtherBuffers ==
    { [width |-> 4, height |-> 3,
       data |-> PixelData(4, 3, (5 :> Grey(a)) @@ (6 :> Grey(b)) @@ (7 :> Grey(c))
                                   @@ (9 :> Grey(d)) @@ (10 :> Grey(e)))] :
        a \in {0, 27}, b \in {0, 27}, c \in {0, 27}, d \in {0, 27}, e \in {0, 27} }
    \cup { [width |-> 2, height |-> 2, data |-> PixelData(2, 2, <<>>)],
           [width |-> 0, height |-> 0, data |-> PixelData(0, 0, <<>>)] }

Buffers == SmallBuffers \cup OtherBuffers

\* the two differences of the pixel at idx
diffX(data, idx) ==
    AbsInt(data[idx] - data[idx + 4] + data[idx + 1] - data[idx + 5]
           + data[idx + 2] - data[idx + 6])

diffY(data, idx, width) ==
    AbsInt(data[idx] - data[idx + width * 4]
           + data[idx + 1] - data[idx + width * 4 + 1]
           + data[idx + 2] - data[idx + width * 4 + 2])

\* mutant: each channel's difference is taken absolute before they are added
sharpnessLoopPerChannel(data, width, height, x, y) ==
    LET Abs3(idx, step) ==
            AbsInt(data[idx] - data[idx + step])
          + AbsInt(data[idx + 1] - data[idx + step + 1])
          + AbsInt(data[idx + 2] - data[idx + step + 2])
        interior == { <<px, py>> \in (1..(width - 2)) \X (1..(height - 2)) : TRUE }
        Term(p) == Abs3((p[2] * width + p[1]) * 4, 4)
                 + Abs3((p[2] * width + p[1]) * 4, width * 4)
        RECURSIVE Total(_)
        Total(S) == IF S = {} THEN 0
                    ELSE LET p == CHOOSE q \in S : TRUE IN Term(p) + Total(S \ {p})
    IN  Total(interior)

\* the two for loops from the pixel (x, y) on: six times the value of the
\* variable sharpness after them
RECURSIVE sharpnessLoop(_, _, _, _, _)
sharpnessLoop(data, width, height, x, y) ==
    IF y >= height - 1 THEN 0
    ELSE IF x >= width - 1 THEN sharpnessLoop(data, width, height, 1, y + 1)
    ELSE LET idx == (y * width + x) * 4
         IN  diffX(data, idx) + diffY(data, idx, width)
             + sharpnessLoop(data, width, height, x + 1, y)

\* sharpness / (width * height)
averageSharpness(data, width, height) ==
    Divide(Frac(sharpnessLoop(data, width, height, 1, 1), 6, 0), Num(width * height))

\* a >= b for two numbers without a root; false for NaN
AtLeast(a, b) == ~IsNaN(a) /\ ~IsNaN(b) /\ ~LessSameUnit(a, b)

\* analyzeSharpness of utils/imageProcessing on a pixel buffer
analyzeSharpnessOfData(data, width, height) ==
    [value |-> averageSharpness(data, width, height),
     isGood |-> AtLeast(averageSharpness(data, width, height), Frac(1, 2, 0))]

\* calculateSharpness of services/measurementService on a pixel buffer
calculateSharpness(data, width, height) == averageSharpness(data, width, height)

-----------------------------------------------------------------------------
(* Inputs of the validators called on their own: five values in millimetres *)

DpValues == {49, 52, 65, 78, 81}

SideValues == {24, 26, 30, 38, 41}

HeightValues == {19, 21, 27, 33, 36}

\* the right-hand value is the left-hand one moved by at most MaxDifference
MaxDifference == 3

Differences == (0 - MaxDifference) .. MaxDifference

MeasurementSets ==
    { [dp |-> Num(dp), dpnLeft |-> Num(dpn), dpnRight |-> Num(dpn + dd),
       apLeft |-> Num(ap), apRight |-> Num(ap + da)] :
        dp \in DpValues, dpn \in SideValues, dd \in Differences,
        ap \in HeightValues, da \in Differences }

Qualities == {"high", "medium", "low"}

\* detection confidences, in hundredths
Confidences == {69, 70, 95}

\* a face tilted by about 12.7 degrees, its three distances whole pixels
TiltedLandmarks ==
    [leftEye |-> [x |-> 0, y |-> 0], rightEye |-> [x |-> 160, y |-> 36],
     nose |-> [x |-> 128, y |-> 96]]

\* the landmark sets of the requests: the left eye at the image origin
RequestLandmarkSets ==
    { l \in LandmarkSets : l.leftEye = [x |-> 0, y |-> 0] } \cup {TiltedLandmarks}

-----------------------------------------------------------------------------
(* storage and api/appointments *)

\* the requests the server handles in one run
MaxRequests == 3

Franchises == {1}

\* dates and time slots, numbered from 1; 0 is a field the body lacks
Dates == {1, 2}

TimeSlots == {1}

\* req.user: a customer and an administrator
Callers == {[id |-> 1, role |-> "customer"], [id |-> 2, role |-> "admin"]}

\* the status a PUT body can carry; "none" is a body without status
StatusUpdates == {"none", "confirmed", "cancelled"}

ActiveStatuses == {"scheduled", "confirmed"}

getAppointment(table, appointmentId) ==
    IF appointmentId \in DOMAIN table THEN table[appointmentId] ELSE Null

\* insert ... returning: the row gets the next id
createAppointment(table, appointment) == Append(table, appointment)

\* update ... set updates where id = appointmentId
updateAppointment(table, appointmentId, updates) ==
    IF appointmentId \in DOMAIN table
    THEN [table EXCEPT ![appointmentId] = updates @@ @]
    ELSE table

checkAppointmentAvailability(table, franchiseId, date, timeSlot) ==
    Cardinality({ i \in DOMAIN table :
                    /\ table[i].franchiseId = franchiseId
                    /\ table[i].date = date
                    /\ table[i].time = timeSlot
                    /\ table[i].status \in ActiveStatuses }) = 0

\* the fields of a PUT body, as the updates { ...req.body }
BodyUpdates(body) ==
    (IF body.date # 0 THEN [date |-> body.date] ELSE <<>>)
    @@ (IF body.time # 0 THEN [time |-> body.time] ELSE <<>>)
    @@ (IF body.status # "none" THEN [status |-> body.status] ELSE <<>>)

\* res.status(status): the handler has answered
Done(request, status) == [handler |-> request.handler, pc |-> "done", status |-> status]

AccessDenied(appointment, user) == appointment.userId # user.id /\ user.role # "admin"

\* POST /api/appointments up to the answer of checkAppointmentAvailability
PostAppointment ==
    /\ Len(requests) < MaxRequests
    /\ \E user \in Callers, locationId \in Franchises \cup {0}, date \in Dates,
          timeSlot \in TimeSlots :
         LET request == [handler |-> "POST", pc |-> "create", user |-> user,
                         locationId |-> locationId, date |-> date, timeSlot |-> timeSlot]
         IN  requests' = Append(requests,
                 IF locationId = 0 THEN Done(request, 400)
                 ELSE IF ~checkAppointmentAvailability(appointments, locationId,
                                                       date, timeSlot)
                      THEN Done(request, 409)
                 ELSE request)
    /\ UNCHANGED <<exceptAppointments, appointments>>

\* createAppointment(appointmentData)
PostCreate(r) ==
    /\ requests[r].handler = "POST" /\ requests[r].pc = "create"
    /\ appointments' = createAppointment(appointments,
            [userId |-> requests[r].user.id, franchiseId |-> requests[r].locationId,
             date |-> requests[r].date, time |-> requests[r].timeSlot,
             status |-> "scheduled"])
    /\ requests' = [requests EXCEPT ![r] =
            [@ EXCEPT !.pc = "confirm"] @@ [id |-> Len(appointments) + 1]]
    /\ UNCHANGED exceptAppointments

\* updateAppointment(appointment[0].id, { confirmationCode, status: "confirmed" })
PostConfirm(r) ==
    /\ requests[r].handler = "POST" /\ requests[r].pc = "confirm"
    /\ appointments' = updateAppointment(appointments, requests[r].id,
                                         [status |-> "confirmed"])
    /\ requests' = [requests EXCEPT ![r] = Done(@, 201)]
    /\ UNCHANGED exceptAppointments

\* PUT /api/appointments/:id up to the answer of getAppointment
PutAppointment ==
    /\ Len(requests) < MaxRequests
    /\ \E user \in Callers, appointmentId \in 1..MaxRequests, date \in Dates \cup {0},
          time \in TimeSlots \cup {0}, status \in StatusUpdates :
         LET appointment == getAppointment(appointments, appointmentId)
             body == [date |-> date, time |-> time, status |-> status]
             request == [handler |-> "PUT", user |-> user, id |-> appointmentId,
                         body |-> body,
                         pc |-> IF date # 0 /\ time # 0 THEN "check" ELSE "update"]
         IN  requests' = Append(requests,
                 IF appointment = Null THEN Done(request, 404)
                 ELSE IF AccessDenied(appointment, user) THEN Done(request, 403)
                 ELSE request @@ [franchiseId |-> appointment.franchiseId])
    /\ UNCHANGED <<exceptAppointments, appointments>>

\* checkAppointmentAvailability(appointment.franchiseId, date, time)
PutCheck(r) ==
    /\ requests[r].handler = "PUT" /\ requests[r].pc = "check"
    /\ requests' = [requests EXCEPT ![r] =
            IF checkAppointmentAvailability(appointments, @.franchiseId,
                                            @.body.date, @.body.time)
            THEN [@ EXCEPT !.pc = "update"]
            ELSE Done(@, 409)]
    /\ UNCHANGED <<exceptAppointments, appointments>>

\* updateAppointment(appointmentId, { ...req.body })
PutUpdate(r) ==
    /\ requests[r].handler = "PUT" /\ requests[r].pc = "update"
    /\ appointments' = updateAppointment(appointments, requests[r].id,
                                         BodyUpdates(requests[r].body))
    /\ requests' = [requests EXCEPT ![r] = Done(@, 200)]
    /\ UNCHANGED exceptAppointments

\* DELETE /api/appointments/:id up to the answer of getAppointment
DeleteAppointment ==
    /\ Len(requests) < MaxRequests
    /\ \E user \in Callers, appointmentId \in 1..MaxRequests :
         LET appointment == getAppointment(appointments, appointmentId)
             request == [handler |-> "DELETE", pc |-> "cancel", user |-> user,
                         id |-> appointmentId]
         IN  requests' = Append(requests,
                 IF appointment = Null THEN Done(request, 404)
                 ELSE IF AccessDenied(appointment, user) THEN Done(request, 403)
                 ELSE request)
    /\ UNCHANGED <<exceptAppointments, appointments>>

\* updateAppointment(appointmentId, { status: "cancelled" })
DeleteCancel(r) ==
    /\ requests[r].handler = "DELETE" /\ requests[r].pc = "cancel"
    /\ appointments' = updateAppointment(appointments, requests[r].id,
                                         [status |-> "cancelled"])
    /\ requests' = [requests EXCEPT ![r] = Done(@, 204)]
    /\ UNCHANGED exceptAppointments

NextAppointments ==
    \/ PostAppointment
    \/ PutAppointment
    \/ DeleteAppointment
    \/ \E r \in DOMAIN requests : PostCreate(r)
    \/ \E r \in DOMAIN requests : PostConfirm(r)
    \/ \E r \in DOMAIN requests : PutCheck(r)
    \/ \E r \in DOMAIN requests : PutUpdate(r)
    \/ \E r \in DOMAIN requests : DeleteCancel(r)

-----------------------------------------------------------------------------
(* The franchisee application routes *)

\* the one applicant of the run and the administrator who decides
Applicant == "applicant"

Administrator == 2

\* application ids of the requests: the application and one that is not
\* there
ApplicationIds == {1, 2}

Decisions == {"approve", "reject", "request-info"}

DecisionStatus(handler) ==
    CASE handler = "approve" -> "approved"
      [] handler = "reject" -> "rejected"
      [] handler = "request-info" -> "info_requested"

\* the decision requests received so far
DecisionRequests == { r \in DOMAIN requests : requests[r].handler \in Decisions }

\* POST /api/franchisee-applications up to the answer of getUserByUsername;
\* valid is whether franchiseeApplicationSchema accepts the body
SubmitApplication ==
    /\ Len(applications) = 0
    /\ \A r \in DOMAIN requests : requests[r].handler # "submit"
    /\ \E valid \in BOOLEAN :
         LET request == [handler |-> "submit", pc |-> "create", username |-> Applicant]
         IN  requests' = Append(requests,
                 IF ~valid THEN Done(request, 400)
                 ELSE IF \E u \in DOMAIN users : users[u].username = Applicant
                      THEN Done(request, 400)
                 ELSE request)
    /\ UNCHANGED <<exceptFranchisees, applications, users, profiles>>

\* storage.createFranchiseeApplication({ ...validatedData, status: "pending" })
SubmitCreate(r) ==
    /\ requests[r].handler = "submit" /\ requests[r].pc = "create"
    /\ applications' = Append(applications,
            [username |-> requests[r].username, status |-> "pending",
             approvedBy |-> 0, rejectedBy |-> 0, infoRequestedBy |-> 0])
    /\ requests' = [requests EXCEPT ![r] = Done(@, 201)]
    /\ UNCHANGED <<exceptFranchisees, users, profiles>>

\* approve, reject and request-info up to the answer of
\* getFranchiseeApplicationById; hasDetails is whether the body has the
\* reason or the requestDetails (approve reads neither)
DecideApplication ==
    /\ Cardinality(DecisionRequests) < MaxRequests
    /\ \E handler \in Decisions, id \in ApplicationIds, hasDetails \in BOOLEAN :
         /\ handler = "approve" => hasDetails
         /\ LET request == [handler |-> handler, pc |-> "update", id |-> id]
            IN  requests' = Append(requests,
                    IF ~hasDetails THEN Done(request, 400)
                    ELSE IF id \notin DOMAIN applications THEN Done(request, 404)
                    ELSE IF applications[id].status # "pending" THEN Done(request, 400)
                    ELSE request @@ [application |-> applications[id]])
    /\ UNCHANGED <<exceptFranchisees, applications, users, profiles>>

\* storage.updateFranchiseeApplication(id, { status, ...By: req.user.id })
DecideUpdate(r) ==
    /\ requests[r].handler \in Decisions /\ requests[r].pc = "update"
    /\ applications' = [applications EXCEPT ![requests[r].id] =
            (CASE requests[r].handler = "approve" -> [approvedBy |-> Administrator]
               [] requests[r].handler = "reject" -> [rejectedBy |-> Administrator]
               [] requests[r].handler = "request-info"
                    -> [infoRequestedBy |-> Administrator])
            @@ [status |-> DecisionStatus(requests[r].handler)] @@ @]
    /\ requests' = [requests EXCEPT ![r] =
            IF @.handler = "approve" THEN [@ EXCEPT !.pc = "findUser"]
            ELSE Done(@, 200)]
    /\ UNCHANGED <<exceptFranchisees, users, profiles>>

\* createUser: the search for a user with the username or email
ApproveFindUser(r) ==
    /\ requests[r].handler = "approve" /\ requests[r].pc = "findUser"
    /\ requests' = [requests EXCEPT ![r] =
            IF \E u \in DOMAIN users : users[u].username = @.application.username
            THEN Done(@, 500)
            ELSE [@ EXCEPT !.pc = "insertUser"]]
    /\ UNCHANGED <<exceptFranchisees, applications, users, profiles>>

\* createUser: db.insert(users).values(data)
ApproveInsertUser(r) ==
    /\ requests[r].handler = "approve" /\ requests[r].pc = "insertUser"
    /\ users' = Append(users, [username |-> requests[r].application.username,
                               role |-> "franchisee"])
    /\ requests' = [requests EXCEPT ![r] =
            [@ EXCEPT !.pc = "createProfile"] @@ [userId |-> Len(users) + 1]]
    /\ UNCHANGED <<exceptFranchisees, applications, profiles>>

\* storage.createFranchiseeProfile({ userId: user.id, ... })
ApproveCreateProfile(r) ==
    /\ requests[r].handler = "approve" /\ requests[r].pc = "createProfile"
    /\ profiles' = Append(profiles, [userId |-> requests[r].userId,
                                     applicationId |-> requests[r].id])
    /\ requests' = [requests EXCEPT ![r] = Done(@, 200)]
    /\ UNCHANGED <<exceptFranchisees, applications, users>>

NextFranchisees ==
    \/ SubmitApplication
    \/ DecideApplication
    \/ \E r \in DOMAIN requests : SubmitCreate(r)
    \/ \E r \in DOMAIN requests : DecideUpdate(r)
    \/ \E r \in DOMAIN requests : ApproveFindUser(r)
    \/ \E r \in DOMAIN requests : ApproveInsertUser(r)
    \/ \E r \in DOMAIN requests : ApproveCreateProfile(r)

-----------------------------------------------------------------------------
(* routes/measurements: saving and deleting a measurement *)

\* the clients of the pool
PoolClients == {1, 2}

\* measurement ids of the delete requests
MeasurementIds == {1, 2}

\* client.query(...) on the client of request r: whether the client is in
\* a transaction afterwards
ClientQuery(r, inTransaction) ==
    [pool EXCEPT ![requests[r].client].inTransaction = inTransaction]

\* client.release() in the finally block
Release(clients, client) == [clients EXCEPT ![client].leased = FALSE]

\* a rejected await inside the try block: on to the catch block
Caught(request, error) == [request EXCEPT !.pc = "rollback", !.error = error]

At(r, handlers, pc) == requests[r].handler \in handlers /\ requests[r].pc = pc

\* router.post('/') and router.delete('/:id') up to the answer of
\* pool.connect(), which waits for an idle client
Connect ==
    /\ Len(requests) < MaxRequests
    /\ \E client \in PoolClients, user \in Callers :
         /\ ~pool[client].leased
         /\ pool' = [pool EXCEPT ![client].leased = TRUE]
         /\ \/ \E valid, hasImage \in BOOLEAN :
                 requests' = Append(requests,
                     [handler |-> "save", pc |-> "begin", client |-> client,
                      user |-> user, valid |-> valid, hasImage |-> hasImage,
                      error |-> "none"])
            \/ \E id \in MeasurementIds :
                 requests' = Append(requests,
                     [handler |-> "delete", pc |-> "begin", client |-> client,
                      user |-> user, id |-> id, error |-> "none"])
    /\ UNCHANGED <<exceptMeasurements, savedMeasurements>>

\* client.query('BEGIN'), and in the save handler measurementSchema.parse
Begin(r) ==
    /\ At(r, {"save", "delete"}, "begin")
    /\ \E ok \in BOOLEAN :
         /\ pool' = ClientQuery(r, ok \/ pool[requests[r].client].inTransaction)
         /\ requests' = [requests EXCEPT ![r] =
                IF ~ok THEN Caught(@, "Error")
                ELSE IF @.handler = "delete" THEN [@ EXCEPT !.pc = "select"]
                ELSE IF ~@.valid THEN Caught(@, "ZodError")
                ELSE [@ EXCEPT !.pc = IF requests[r].hasImage THEN "upload"
                                      ELSE "insert"]]
    /\ UNCHANGED <<exceptMeasurements, savedMeasurements>>

\* uploadToS3(base64Data, 'measurements')
Upload(r) ==
    /\ At(r, {"save"}, "upload")
    /\ \E ok \in BOOLEAN :
         requests' = [requests EXCEPT ![r] =
             IF ok THEN [@ EXCEPT !.pc = "insert"] ELSE Caught(@, "Error")]
    /\ UNCHANGED <<exceptMeasurements, pool, savedMeasurements>>

\* INSERT INTO measurements ... RETURNING *
Insert(r) ==
    /\ At(r, {"save"}, "insert")
    /\ \E ok \in BOOLEAN :
         requests' = [requests EXCEPT ![r] =
             IF ok THEN [@ EXCEPT !.pc = "commit"] ELSE Caught(@, "Error")]
    /\ UNCHANGED <<exceptMeasurements, pool, savedMeasurements>>

\* SELECT image_url FROM measurements WHERE id = $1 AND user_id = $2; with
\* no row the handler answers 404 and the finally block releases the client
Select(r) ==
    /\ At(r, {"delete"}, "select")
    /\ \E ok \in BOOLEAN :
         LET id == requests[r].id
             found == /\ id \in DOMAIN savedMeasurements
                      /\ ~savedMeasurements[id].deleted
                      /\ savedMeasurements[id].userId = requests[r].user.id
         IN  /\ requests' = [requests EXCEPT ![r] =
                    IF ~ok THEN Caught(@, "Error")
                    ELSE IF ~found THEN Done(@, 404)
                    ELSE [@ EXCEPT !.pc = IF savedMeasurements[id].hasImage
                                          THEN "deleteFromS3" ELSE "delete"]]
             /\ pool' = IF ok /\ ~found THEN Release(pool, requests[r].client)
                        ELSE pool
    /\ UNCHANGED <<exceptMeasurements, savedMeasurements>>

\* deleteFromS3(measurement.image_url)
DeleteFromS3(r) ==
    /\ At(r, {"delete"}, "deleteFromS3")
    /\ \E ok \in BOOLEAN :
         requests' = [requests EXCEPT ![r] =
             IF ok THEN [@ EXCEPT !.pc = "delete"] ELSE Caught(@, "Error")]
    /\ UNCHANGED <<exceptMeasurements, pool, savedMeasurements>>

\* DELETE FROM measurements WHERE id = $1 AND user_id = $2
Delete(r) ==
    /\ At(r, {"delete"}, "delete")
    /\ \E ok \in BOOLEAN :
         requests' = [requests EXCEPT ![r] =
             IF ok THEN [@ EXCEPT !.pc = "commit"] ELSE Caught(@, "Error")]
    /\ UNCHANGED <<exceptMeasurements, pool, savedMeasurements>>

\* client.query('COMMIT'): the insert or the delete takes effect, the
\* handler answers and the finally block releases the client
Commit(r) ==
    /\ At(r, {"save", "delete"}, "commit")
    /\ \E ok \in BOOLEAN :
         /\ requests' = [requests EXCEPT ![r] =
                IF ok THEN Done(@, 200) ELSE Caught(@, "Error")]
         /\ pool' = IF ok THEN Release(ClientQuery(r, FALSE), requests[r].client)
                    ELSE pool
         /\ savedMeasurements' =
                IF ~ok THEN savedMeasurements
                ELSE IF requests[r].handler = "save"
                     THEN Append(savedMeasurements,
                                 [userId |-> requests[r].user.id,
                                  hasImage |-> requests[r].hasImage,
                                  deleted |-> FALSE])
                ELSE [savedMeasurements EXCEPT ![requests[r].id].deleted = TRUE]
    /\ UNCHANGED exceptMeasurements

\* the catch block: client.query('ROLLBACK'), the answer, and the release
\* of the finally block.  ROLLBACK is taken to succeed: where it cannot
\* reach the server, the server ends the transaction with the connection.
Rollback(r) ==
    /\ At(r, {"save", "delete"}, "rollback")
    /\ requests' = [requests EXCEPT ![r] =
            Done(@, IF @.handler = "save" /\ @.error = "ZodError" THEN 400 ELSE 500)]
    /\ pool' = Release(ClientQuery(r, FALSE), requests[r].client)
    /\ UNCHANGED <<exceptMeasurements, savedMeasurements>>

NextMeasurements ==
    \/ Connect
    \/ \E r \in DOMAIN requests : Begin(r)
    \/ \E r \in DOMAIN requests : Upload(r)
    \/ \E r \in DOMAIN requests : Insert(r)
    \/ \E r \in DOMAIN requests : Select(r)
    \/ \E r \in DOMAIN requests : DeleteFromS3(r)
    \/ \E r \in DOMAIN requests : Delete(r)
    \/ \E r \in DOMAIN requests : Commit(r)
    \/ \E r \in DOMAIN requests : Rollback(r)

-----------------------------------------------------------------------------
(* services/measurementService: loadModels and detectFacialLandmarks *)

\* the nets of face-api.js in the order loadModels loads them
FaceApiNets == <<"tinyFaceDetector", "faceLandmark68Net", "faceRecognitionNet">>

\* how a call of detectFacialLandmarks ends
Ended(request, how) == [handler |-> request.handler, pc |-> "done", status |-> how]

\* detectFacialLandmarks up to the first await of loadModels: the first
\* loadFromDisk when modelsLoaded is false
DetectFacialLandmarks ==
    /\ Len(requests) < MaxRequests
    /\ requests' = Append(requests,
            [handler |-> "detectFacialLandmarks", net |-> 1,
             pc |-> IF modelsLoaded THEN "loadImage" ELSE "loadFromDisk"])
    /\ UNCHANGED <<exceptDetection, modelsLoaded, loads>>

\* faceapi.nets.<net>.loadFromDisk('models') completes; after the third,
\* modelsLoaded = true
LoadFromDisk(r) ==
    /\ At(r, {"detectFacialLandmarks"}, "loadFromDisk")
    /\ \E ok \in BOOLEAN :
         LET net == requests[r].net
         IN  /\ loads' = IF ok THEN [loads EXCEPT ![net] = @ + 1] ELSE loads
             /\ modelsLoaded' = (modelsLoaded \/ (ok /\ net = Len(FaceApiNets)))
             /\ requests' = [requests EXCEPT ![r] =
                    IF ~ok THEN Ended(@, "throw")
                    ELSE IF net = Len(FaceApiNets) THEN [@ EXCEPT !.pc = "loadImage"]
                    ELSE [@ EXCEPT !.net = net + 1]]
    /\ UNCHANGED exceptDetection

\* canvas.loadImage(imageData)
LoadImage(r) ==
    /\ At(r, {"detectFacialLandmarks"}, "loadImage")
    /\ \E ok \in BOOLEAN :
         requests' = [requests EXCEPT ![r] =
             IF ok THEN [@ EXCEPT !.pc = "detect"] ELSE Ended(@, "throw")]
    /\ UNCHANGED <<exceptDetection, modelsLoaded, loads>>

\* faceapi.detectSingleFace(image, ...).withFaceLandmarks(): a face, no
\* face, or an error
DetectSingleFace(r) ==
    /\ At(r, {"detectFacialLandmarks"}, "detect")
    /\ \E detections \in {"face", "undefined", "error"} :
         requests' = [requests EXCEPT ![r] =
             Ended(@, IF detections = "face" THEN "return" ELSE "throw")]
    /\ UNCHANGED <<exceptDetection, modelsLoaded, loads>>

NextDetection ==
    \/ DetectFacialLandmarks
    \/ \E r \in DOMAIN requests : LoadFromDisk(r)
    \/ \E r \in DOMAIN requests : LoadImage(r)
    \/ \E r \in DOMAIN requests : DetectSingleFace(r)

-----------------------------------------------------------------------------
(* POST /api/facial-measurements/measure and lib/openai *)

\* images of the requests; 0 is a body without image
FaceImages == {1, 2}

\* what the chat completion of analyzeFacialPosition yields: a rejection
\* (or a content that is no JSON), or the object
\* { isCorrect, feedback, suggestions } its return type declares
PositionReplies ==
    {Throw("Error"), Return([isCorrect |-> TRUE]), Return([isCorrect |-> FALSE])}

\* mutant: the catch block reports a correct position
analyzeFacialPositionFallbackCorrect(reply) ==
    TryCatch(reply, Return([isCorrect |-> TRUE])).value

\* analyzeFacialPosition: the parsed reply, or the fallback of the catch
\* block
analyzeFacialPosition(reply) ==
    TryCatch(reply, Return([isCorrect |-> FALSE])).value

\* res.status(status) of the measure handler
Answered(request, status) == [request EXCEPT !.pc = "done", !.status = status]

\* the measure handler up to the call of analyzeFacialPosition
MeasureFace ==
    /\ Len(requests) < MaxRequests
    /\ \E image \in FaceImages \cup {0}, user \in Callers :
         LET request == [handler |-> "measure", pc |-> "position", image |-> image,
                         user |-> user, reply |-> [kind |-> "none"], status |-> 0]
         IN  requests' = Append(requests,
                 IF image = 0 THEN Answered(request, 400) ELSE request)
    /\ UNCHANGED <<exceptMeasurements, pool, savedMeasurements>>

\* analyzeFacialPosition(base64Image) answers; !positionAnalysis.isCorrect
\* ends the handler with 400
PositionAnalysed(r) ==
    /\ At(r, {"measure"}, "position")
    /\ \E reply \in PositionReplies :
         LET positionAnalysis == analyzeFacialPosition(reply)
         IN  requests' = [requests EXCEPT ![r] =
                 IF ~positionAnalysis.isCorrect
                 THEN Answered([@ EXCEPT !.reply = reply], 400)
                 ELSE [@ EXCEPT !.reply = reply, !.pc = "measurements"]]
    /\ UNCHANGED <<exceptMeasurements, pool, savedMeasurements>>

\* analyzeFacialMeasurements(base64Image) answers, with its default values
\* when the completion fails; valid is whether insertMeasurementSchema
\* accepts the measurement data
FaceMeasured(r) ==
    /\ At(r, {"measure"}, "measurements")
    /\ \E valid \in BOOLEAN :
         requests' = [requests EXCEPT ![r] =
             IF valid THEN [@ EXCEPT !.pc = "createMeasurement"]
             ELSE Answered(@, 500)]
    /\ UNCHANGED <<exceptMeasurements, pool, savedMeasurements>>

\* storage.createMeasurement(validatedData)
CreateMeasurement(r) ==
    /\ At(r, {"measure"}, "createMeasurement")
    /\ \E ok \in BOOLEAN :
         /\ savedMeasurements' =
                IF ok THEN Append(savedMeasurements,
                                  [userId |-> requests[r].user.id, hasImage |-> TRUE,
                                   imageUrl |-> requests[r].image, deleted |-> FALSE])
                ELSE savedMeasurements
         /\ requests' = [requests EXCEPT ![r] = Answered(@, IF ok THEN 200 ELSE 500)]
    /\ UNCHANGED <<exceptMeasurements, pool>>

NextFacial ==
    \/ MeasureFace
    \/ \E r \in DOMAIN requests : PositionAnalysed(r)
    \/ \E r \in DOMAIN requests : FaceMeasured(r)
    \/ \E r \in DOMAIN requests : CreateMeasurement(r)

-----------------------------------------------------------------------------
(* The calls *)

Idle == call.op = "idle"

Init ==
    /\ call = [op |-> "idle"]
    /\ result = [kind |-> "none"]
    /\ requests = <<>>
    /\ appointments = <<>>
    /\ applications = <<>>
    /\ users = <<>>
    /\ profiles = <<>>
    /\ pool = [c \in PoolClients |-> [leased |-> FALSE, inTransaction |-> FALSE]]
    /\ savedMeasurements = <<>>
    /\ modelsLoaded = FALSE
    /\ loads = [m \in DOMAIN FaceApiNets |-> 0]

CalculateMeasurements ==
    /\ Idle
    /\ UNCHANGED server
    /\ \E l \in EngineLandmarkSets, w \in Widths, h \in Heights :
         \E scope \in {Unbound, BoundTo(l)} :
            /\ call' = [op |-> "calculateMeasurements", landmarks |-> l,
                        imageWidth |-> w, imageHeight |-> h, scope |-> scope]
            /\ result' = calculateMeasurements(l, w, h, scope)

ValidateMeasurements ==
    /\ Idle
    /\ UNCHANGED server
    /\ \E m \in MeasurementSets :
         /\ call' = [op |-> "validateMeasurements", measurements |-> m]
         /\ result' = Return(validateMeasurements(m))

GenerateWarnings ==
    /\ Idle
    /\ UNCHANGED server
    /\ \E m \in MeasurementSets, quality \in Qualities, confidence \in Confidences :
         /\ call' = [op |-> "generateWarnings", measurements |-> m,
                     quality |-> quality, confidence |-> confidence]
         /\ result' = Return(generateWarnings(m, quality, confidence))

ValidateImageQuality ==
    /\ Idle
    /\ UNCHANGED server
    /\ \E image \in Images, fault \in Faults :
         /\ call' = [op |-> "validateImageQuality", image |-> image, fault |-> fault]
         /\ result' = validateImageQuality(image, fault)

AssessImageQuality ==
    /\ Idle
    /\ UNCHANGED server
    /\ \E image \in Images, l \in RequestLandmarkSets, fault \in Faults :
         /\ call' = [op |-> "assessImageQuality", image |-> image, landmarks |-> l,
                     fault |-> fault]
         /\ result' = assessImageQuality(image, l, fault)

AnalyzeAdvanced ==
    /\ Idle
    /\ UNCHANGED server
    /\ \/ \E image \in Images, l \in RequestLandmarkSets, confidence \in Confidences,
             fault \in Faults :
            \E scope \in {Unbound, BoundTo(WithConfidence(l, confidence))} :
               LET body == [hasImage |-> TRUE, hasLandmarks |-> TRUE, image |-> image,
                            landmarks |-> WithConfidence(l, confidence)]
               IN  /\ call' = [op |-> "analyzeAdvanced", body |-> body,
                               fault |-> fault, scope |-> scope]
                   /\ result' = analyzeAdvanced(body, fault, scope)
       \/ \E hasImage, hasLandmarks \in BOOLEAN :
            /\ ~(hasImage /\ hasLandmarks)
            /\ LET body == [hasImage |-> hasImage, hasLandmarks |-> hasLandmarks]
               IN  /\ call' = [op |-> "analyzeAdvanced", body |-> body,
                               fault |-> "none", scope |-> Unbound]
                   /\ result' = analyzeAdvanced(body, "none", Unbound)

GeometryCalculateDistance ==
    /\ Idle
    /\ UNCHANGED server
    /\ \E point1, point2 \in GeometryPoints :
         /\ call' = [op |-> "calculateDistance", point1 |-> point1, point2 |-> point2]
         /\ result' = Return(geometryCalculateDistance(point1, point2))

RotatePoint ==
    /\ Idle
    /\ UNCHANGED server
    /\ \E point, center \in GeometryPoints, angle \in Turns :
         /\ call' = [op |-> "rotatePoint", point |-> point, center |-> center,
                     angle |-> angle]
         /\ result' = Return(rotatePoint(point, center, angle))

CalculateAngleBetweenPoints ==
    /\ Idle
    /\ UNCHANGED server
    /\ \E point1, vertex, point2 \in GeometryPoints :
         /\ call' = [op |-> "calculateAngleBetweenPoints", point1 |-> point1,
                     vertex |-> vertex, point2 |-> point2]
         /\ result' = Return(calculateAngleBetweenPoints(point1, vertex, point2))

AnalyzeSharpness ==
    /\ Idle
    /\ UNCHANGED server
    /\ \E image \in Buffers :
         /\ call' = [op |-> "analyzeSharpness", image |-> image]
         /\ result' = Return(analyzeSharpnessOfData(image.data, image.width, image.height))

CalculateSharpness ==
    /\ Idle
    /\ UNCHANGED server
    /\ \E image \in Buffers :
         /\ call' = [op |-> "calculateSharpness", image |-> image]
         /\ result' = Return(calculateSharpness(image.data, image.width, image.height))

NextPixels == AnalyzeSharpness \/ CalculateSharpness

CalculateLineIntersection ==
    /\ Idle
    /\ UNCHANGED server
    /\ \E line1Start, line1End, line2Start, line2End \in GeometryPoints :
         /\ call' = [op |-> "calculateLineIntersection",
                     line1Start |-> line1Start, line1End |-> line1End,
                     line2Start |-> line2Start, line2End |-> line2End]
         /\ result' = Return(calculateLineIntersection(line1Start, line1End,
                                                       line2Start, line2End))

CalculateProjection ==
    /\ Idle
    /\ UNCHANGED server
    /\ \E lineStart, lineEnd, point \in GeometryPoints :
         /\ call' = [op |-> "calculateProjection", lineStart |-> lineStart,
                     lineEnd |-> lineEnd, point |-> point]
         /\ result' = Return(calculateProjection(lineStart, lineEnd, point))

CalculatePointToLineDistance ==
    /\ Idle
    /\ UNCHANGED server
    /\ \E lineStart, lineEnd, point \in GeometryPoints :
         /\ call' = [op |-> "calculatePointToLineDistance", lineStart |-> lineStart,
                     lineEnd |-> lineEnd, point |-> point]
         /\ result' = Return(calculatePointToLineDistance(lineStart, lineEnd, point))

NextGeometry ==
    \/ GeometryCalculateDistance
    \/ RotatePoint
    \/ CalculateAngleBetweenPoints
    \/ CalculateLineIntersection
    \/ CalculateProjection
    \/ CalculatePointToLineDistance

NextEngine == CalculateMeasurements

NextQuality == ValidateImageQuality \/ AssessImageQuality

NextAnalysis == AnalyzeAdvanced

NextWarnings == ValidateMeasurements \/ GenerateWarnings

SpecPixels == Init /\ [][NextPixels]_vars

SpecAppointments == Init /\ [][NextAppointments]_vars

SpecFranchisees == Init /\ [][NextFranchisees]_vars

SpecMeasurements == Init /\ [][NextMeasurements]_vars

SpecDetection == Init /\ [][NextDetection]_vars

SpecFacial == Init /\ [][NextFacial]_vars

SpecGeometry == Init /\ [][NextGeometry]_vars

SpecEngine == Init /\ [][NextEngine]_vars

SpecWarnings == Init /\ [][NextWarnings]_vars

SpecQuality == Init /\ [][NextQuality]_vars

SpecAnalysis == Init /\ [][NextAnalysis]_vars

-----------------------------------------------------------------------------
(* Properties of the measurement engine (SpecEngine) *)

EngineReturned == call.op = "calculateMeasurements" /\ result.kind = "return"

\* the factor calculateMeasurements multiplied its five values by
AppliedCorrection ==
    calculateDistanceCorrection(call.imageWidth, call.imageHeight, call.scope).value

WithinHalfAndTwo(f) == IsFinite(f) /\ f.c = 0 /\ f.d <= 2 * f.n /\ f.n <= 2 * f.d

IsZero(x) == IsFinite(x) /\ x.n = 0

\* C1: for every image width and every pair of eye positions, the factor
\* returned by calculateDistanceCorrection and applied by
\* calculateMeasurements lies within [0.5, 2.0].
C1_CorrectionWithinBounds == EngineReturned => WithinHalfAndTwo(AppliedCorrection)

\* C1, the part that holds: for a positive image width the factor lies
\* within [0.5, 2.0], also when both eyes have the same x coordinate.
CorrectionWithinBoundsForPositiveWidth ==
    EngineReturned /\ call.imageWidth > 0 => WithinHalfAndTwo(AppliedCorrection)

\* (0.6 x image width) / (3 x distance between the eyes), limited to
\* [0.5, 2.0]
EuclideanCorrection ==
    MathMax(Frac(1, 2, 0),
            MathMin(Num(2),
                    Divide(Times(Num(call.imageWidth), Frac(6, 10, 0)),
                           Times(calculateDistance(call.landmarks.leftEye,
                                                   call.landmarks.rightEye),
                                 Num(3)))))

\* C22: the distance correction factor equals (0.6 x image width) /
\* (3 x Euclidean pixel distance between leftEye and rightEye), limited to
\* [0.5, 2.0], for every landmark set including tilted eye lines, and all
\* five millimetre values are multiplied by this same factor.
C22_CorrectionByEuclideanEyeDistance ==
    EngineReturned /\ call.imageWidth > 0
                   /\ call.landmarks.leftEye # call.landmarks.rightEye
        => /\ AppliedCorrection = EuclideanCorrection
           /\ LET l == call.landmarks
                  Raw(x) == Times(Times(x, CALIBRATION_FACTOR), EuclideanCorrection)
                  eyeLineAngle == calculateAngle(l.leftEye, l.rightEye)
              IN  result.value =
                    [dp       |-> Raw(calculateDistance(l.leftEye, l.rightEye)),
                     dpnLeft  |-> Raw(calculateDistance(l.leftEye, l.nose)),
                     dpnRight |-> Raw(calculateDistance(l.rightEye, l.nose)),
                     apLeft   |-> Raw(PupilHeight(l.leftEye, l.nose, eyeLineAngle)),
                     apRight  |-> Raw(PupilHeight(l.rightEye, l.nose, eyeLineAngle))]

\* C22 for level eye lines: there the horizontal distance the code divides
\* by is the distance between the eyes.
CorrectionByEyeDistanceWhenLevel ==
    EngineReturned /\ call.imageWidth > 0
                   /\ call.landmarks.leftEye.y = call.landmarks.rightEye.y
                   /\ call.landmarks.leftEye # call.landmarks.rightEye
        => AppliedCorrection = EuclideanCorrection

Collinear(l) ==
    (l.rightEye.x - l.leftEye.x) * (l.nose.y - l.leftEye.y)
  = (l.rightEye.y - l.leftEye.y) * (l.nose.x - l.leftEye.x)

C10_RejectsNonPositiveSize ==
    call.op = "calculateMeasurements" /\ (call.imageWidth <= 0 \/ call.imageHeight <= 0)
        => result.kind = "throw" /\ result.error = "InputError"

PositiveSize == call.imageWidth > 0 /\ call.imageHeight > 0

FiniteNonNegative(x) == IsFinite(x) /\ x.n >= 0 /\ x.d > 0

FiveFields == {"dp", "dpnLeft", "dpnRight", "apLeft", "apRight"}

ExampleCall ==
    /\ call.op = "calculateMeasurements"
    /\ call.landmarks = ExampleLandmarks
    /\ call.imageWidth = 640
    /\ call.imageHeight = 480
    /\ call.scope.bound

\* x pixels, calibrated and corrected by the factor 2
CalibratedTwice(x) == Times(Times(x, CALIBRATION_FACTOR), Num(2))

\* a value in millimetres is strictly between lo and hi hundredths of a
\* millimetre
BetweenHundredths(x, lo, hi) ==
    /\ x.d = 1 /\ x.c = 1 /\ x.r = 1
    /\ ProductLess(Product(lo, NanoPerUnit \div 100), Product(x.n, CalibrationNano))
    /\ ProductLess(Product(x.n, CalibrationNano), Product(hi, NanoPerUnit \div 100))

-----------------------------------------------------------------------------
(* Properties of the validators (SpecWarnings): the five values of these  *)
(* calls are whole millimetres                                            *)

Millimetres(x) == x.n

Distance(a, b) == AbsInt(Millimetres(a) - Millimetres(b))

WarningsCall == call.op \in {"generateWarnings", "validateMeasurements"}

\* the list the call produced
Produced ==
    IF call.op = "validateMeasurements" THEN result.value.errors ELSE result.value

Has(list, message) == \E i \in 1..Len(list) : list[i] = message

\* C3: the produced list contains an asymmetry warning whenever
\* |dpnLeft - dpnRight| > 2 or |apLeft - apRight| > 2, in generateWarnings
\* and in validateMeasurements, whatever the quality, the confidence and the
\* range checks.
C3_AsymmetryWarned ==
    WarningsCall =>
        /\ Distance(call.measurements.dpnLeft, call.measurements.dpnRight) > 2
              => Has(Produced, "dpn_asymmetry")
        /\ Distance(call.measurements.apLeft, call.measurements.apRight) > 2
              => Has(Produced, "ap_asymmetry")

\* values in range, good quality and confidence, and only the nasal
\* distances apart by more than 2 mm
C3_Witness ==
    /\ call.op = "generateWarnings"
    /\ Distance(call.measurements.dpnLeft, call.measurements.dpnRight) > 2
    /\ Distance(call.measurements.apLeft, call.measurements.apRight) <= 2
    /\ result.value = <<"dpn_asymmetry">>

Within(x, lo, hi) == lo <= Millimetres(x) /\ Millimetres(x) <= hi

Symmetric(m) == Distance(m.dpnLeft, m.dpnRight) <= 2 /\ Distance(m.apLeft, m.apRight) <= 2

\* C4: the warnings list is empty whenever all five values are within dp
\* 50-80, dpnLeft/dpnRight 25-40, apLeft/apRight 20-35, both left/right
\* differences are at most 2 mm, and confidence >= 0.7.
C4_NoWarningsInPlausibleRanges ==
    /\ call.op = "generateWarnings"
    /\ Within(call.measurements.dp, 50, 80)
    /\ Within(call.measurements.dpnLeft, 25, 40)
    /\ Within(call.measurements.dpnRight, 25, 40)
    /\ Within(call.measurements.apLeft, 20, 35)
    /\ Within(call.measurements.apRight, 20, 35)
    /\ Symmetric(call.measurements)
    /\ call.confidence >= 70
    => result.value = <<>>

InWarningRanges(m) ==
    /\ Within(m.dp, 55, 75)
    /\ Within(m.dpnLeft, 27, 37)
    /\ Within(m.dpnRight, 27, 37)
    /\ Within(m.apLeft, 22, 32)
    /\ Within(m.apRight, 22, 32)

\* C4 as amended: the warnings list is empty whenever the quality is not
\* low, the five values are within dp 55-75, dpnLeft/dpnRight 27-37,
\* apLeft/apRight 22-32, both differences are at most 2 mm, and
\* confidence >= 0.7.
C4_NoWarningsInWarningRanges ==
    /\ call.op = "generateWarnings"
    /\ call.quality # "low"
    /\ InWarningRanges(call.measurements)
    /\ Symmetric(call.measurements)
    /\ call.confidence >= 70
    => result.value = <<>>

\* a confidence of exactly 0.7 and a difference of exactly 2 mm
C4_Witness ==
    /\ call.op = "generateWarnings"
    /\ call.quality = "medium"
    /\ InWarningRanges(call.measurements)
    /\ Distance(call.measurements.dpnLeft, call.measurements.dpnRight) = 2
    /\ call.confidence = 70
    /\ result.value = <<>>

-----------------------------------------------------------------------------
(* Properties of the quality scorer (SpecQuality) *)

Boolean01(b) == IF b THEN 1 ELSE 0

\* how many of resolution, brightness and sharpness the report calls good
GoodCount(report) ==
    Boolean01(report.details.resolution.isGood)
  + Boolean01(report.details.brightness.isGood)
  + Boolean01(report.details.sharpness.isGood)

Validated == call.op = "validateImageQuality" /\ result.kind = "return"

\* C5: under the count-threshold policy the grade is 'low' whenever zero or
\* exactly one of resolution, brightness and sharpness is good.
C5_LowForAtMostOneGood ==
    Validated /\ call.fault = "none" /\ GoodCount(result.value) <= 1
        => result.value.quality = "low"

\* C5 as amended: the grade is 'low' whenever none of the three is good,
\* and 'medium' whenever exactly one is.
C5_LowForNoneMediumForOne ==
    Validated /\ call.fault = "none" =>
        /\ GoodCount(result.value) = 0 => result.value.quality = "low"
        /\ GoodCount(result.value) = 1 => result.value.quality = "medium"

C5_Witness ==
    /\ Validated
    /\ call.fault = "none"
    /\ GoodCount(result.value) = 1
    /\ result.value.quality = "medium"

BelowMinimumResolution(image) == image.width * image.height < 640 * 480

\* C6: for every image whose pixel count is below 640 x 480, the report of
\* validateImageQuality has details.resolution.isGood = false and a message
\* that contains 'resolucao baixa'.
C6_LowResolutionReported ==
    Validated /\ call.fault # "loadImage" /\ BelowMinimumResolution(call.image)
        => /\ ~result.value.details.resolution.isGood
           /\ MessageIncludes(result.value.message, "resolucao baixa")

\* C6 as amended: for every such image the report has
\* details.resolution.isGood = false; its message contains 'resolucao
\* baixa' when the image is processed without a failure, and is 'Erro ao
\* processar imagem' when processing fails.
C6_LowResolutionReportedUnlessFailed ==
    Validated /\ BelowMinimumResolution(call.image)
        => /\ ~result.value.details.resolution.isGood
           /\ call.fault = "none"
                 => MessageIncludes(result.value.message, "resolucao baixa")
           /\ call.fault # "none" => result.value.message.text = "error"

\* a small image, otherwise good: the message names the resolution alone
C6_Witness ==
    /\ Validated
    /\ call.fault = "none"
    /\ BelowMinimumResolution(call.image)
    /\ result.value.message = [text |-> "improve", issues |-> <<"resolucao baixa">>]
    /\ ~result.value.details.resolution.isGood

\* C7: every report of validateImageQuality, on the normal path and on the
\* failure path, has isGood = (quality is not 'low').
C7_GoodIffNotLow ==
    call.op = "validateImageQuality"
        => result.kind = "return"
           /\ result.value.isGood = (result.value.quality # "low")

\* the normal path with a small image and one good metric: good, but not
\* by its resolution
C7_Witness ==
    /\ Validated
    /\ call.fault = "none"
    /\ result.value.quality = "medium"
    /\ result.value.isGood
    /\ ~result.value.details.resolution.isGood

\* C8: when image loading or a metric computation fails,
\* validateImageQuality returns the fixed report (isGood false, quality
\* 'low', all four metrics not good) and assessImageQuality returns 'low';
\* neither throws.
C8_FailuresDegradeToLow ==
    /\ call.op \in {"validateImageQuality", "assessImageQuality"}
          => result.kind = "return"
    /\ call.op = "validateImageQuality" /\ call.fault # "none"
          => /\ result.value = UnprocessableReport
             /\ ~result.value.isGood
             /\ result.value.quality = "low"
             /\ \A metric \in {"resolution", "brightness", "sharpness", "faceAngle"} :
                   ~result.value.details[metric].isGood
    /\ call.op = "assessImageQuality" /\ call.fault # "none"
          => result.value = "low"

\* an image that would grade 'high' but whose pixel buffer cannot be read
C8_Witness ==
    /\ call.op = "assessImageQuality"
    /\ call.fault = "getImageData"
    /\ assessImageQualityAttempt(call.image, call.landmarks, "none") = Return("high")
    /\ result = Return("low")

\* C17: the count-threshold policy maps the number of good metrics among
\* resolution, brightness and sharpness to the grade: 2 or 3 good give
\* 'high', exactly 1 gives 'medium', none gives 'low'.
C17_GradeByGoodCount ==
    Validated /\ call.fault = "none"
        => result.value.quality =
              (IF GoodCount(result.value) \in {2, 3} THEN "high"
               ELSE IF GoodCount(result.value) = 1 THEN "medium"
               ELSE "low")

\* two good metrics out of three: 'high'
C17_Witness ==
    /\ Validated
    /\ call.fault = "none"
    /\ GoodCount(result.value) = 2
    /\ result.value.quality = "high"

Band(strong, borderline) == IF strong THEN 2 ELSE IF borderline THEN 1 ELSE 0

\* the points of the four metrics of the call, by the bands of the
\* weighted policy: resolution from 640 x 480 (from three quarters of it),
\* brightness 0.4-0.8 (0.3-0.9), sharpness from 0.7 (from 0.5), face angle
\* within 5 (within 15) degrees
ResolutionPoints ==
    Band(call.image.width * call.image.height >= 307200,
         call.image.width * call.image.height >= 230400)

BrightnessPoints ==
    Band(call.image.brightness \in 40..80, call.image.brightness \in 30..90)

SharpnessPoints == Band(call.image.sharpness >= 70, call.image.sharpness >= 50)

FaceAnglePoints ==
    Band(AbsDegreesAtMost(calculateFaceAngle(call.landmarks), 5),
         AbsDegreesAtMost(calculateFaceAngle(call.landmarks), 15))

WeightedSum == ResolutionPoints + BrightnessPoints + SharpnessPoints + FaceAnglePoints

Assessed ==
    call.op = "assessImageQuality" /\ call.fault = "none" /\ result.kind = "return"

\* C18: the weighted-point policy gives each of resolution, brightness,
\* sharpness and face angle 2 points for a strong pass, 1 for a borderline
\* pass and 0 otherwise, and returns 'high' iff the sum is at least 7,
\* 'medium' iff it is 4 to 6 and 'low' iff it is at most 3.
C18_GradeByWeightedSum ==
    call.op = "assessImageQuality" /\ call.fault = "none"
        => /\ result.kind = "return"
           /\ result.value = "high" <=> WeightedSum >= 7
           /\ result.value = "medium" <=> WeightedSum \in 4..6
           /\ result.value = "low" <=> WeightedSum <= 3

\* every metric borderline: 4 points, 'medium'
C18_Witness ==
    /\ Assessed
    /\ ResolutionPoints = 1
    /\ BrightnessPoints = 1
    /\ SharpnessPoints = 1
    /\ FaceAnglePoints = 1
    /\ result.value = "medium"

\* the grade of the count-threshold policy for an image
CountGrade(image) ==
    determineQuality(analyzeResolution(image.width, image.height),
                     analyzeBrightness(image), analyzeSharpness(image))

\* C19: the two grading policies are not equivalent: for the face angle of
\* every call of assessImageQuality there is an image for which
\* determineQuality and assessImageQuality return different grades.
C19_PoliciesDiffer ==
    call.op = "assessImageQuality"
        => \E image \in Images :
              CountGrade(image) # assessImageQuality(image, call.landmarks, "none").value

\* a call of the weighted policy that returns 'medium' for an image the
\* count-threshold policy grades 'high'
C19_Witness ==
    /\ Assessed
    /\ result.value = "medium"
    /\ CountGrade(call.image) = "high"

AllGood(report) == GoodCount(report) = 3

\* the failing aspects of a report, in the order resolution, brightness,
\* sharpness
FailingAspects(report) ==
    (IF report.details.resolution.isGood THEN <<>> ELSE <<"resolucao baixa">>)
 \o (IF report.details.brightness.isGood THEN <<>> ELSE <<"iluminacao inadequada">>)
 \o (IF report.details.sharpness.isGood THEN <<>> ELSE <<"imagem desfocada">>)

\* C20: generateQualityMessage returns the affirmative message if and only
\* if resolution, brightness and sharpness are all good; otherwise the
\* message lists exactly the failing aspects, in that order, whatever the
\* grade.
C20_MessageListsFailingAspects ==
    Validated /\ call.fault = "none"
        => /\ result.value.message.text = "good" <=> AllGood(result.value)
           /\ ~AllGood(result.value)
                 => result.value.message =
                       [text |-> "improve", issues |-> FailingAspects(result.value)]

\* a grade of 'high' with one failing aspect, which the message names
C20_Witness ==
    /\ Validated
    /\ call.fault = "none"
    /\ result.value.quality = "high"
    /\ result.value.message =
          [text |-> "improve", issues |-> <<"iluminacao inadequada">>]

-----------------------------------------------------------------------------
(* Properties of POST /analyze-advanced (SpecAnalysis) *)

\* the request is complete and analyzeMeasurements returns
AnalysisReturned ==
    /\ call.op = "analyzeAdvanced"
    /\ call.body.hasImage /\ call.body.hasLandmarks
    /\ call.fault # "loadImage"
    /\ call.scope.bound

\* what calculateMeasurements returns to analyzeMeasurements
Measured ==
    calculateMeasurements(call.body.landmarks, call.body.image.width,
                          call.body.image.height, call.scope).value

FiveValues(r) ==
    [dp |-> r.dp, dpnLeft |-> r.dpnLeft, dpnRight |-> r.dpnRight,
     apLeft |-> r.apLeft, apRight |-> r.apRight]

InRange(x, lo, hi) == ~IsNaN(x) /\ ~LessThan(x, lo) /\ ~GreaterThan(x, hi)

InSchemaRanges(m) ==
    /\ InRange(m.dp, 50, 80)
    /\ InRange(m.dpnLeft, 25, 40)
    /\ InRange(m.dpnRight, 25, 40)
    /\ InRange(m.apLeft, 20, 35)
    /\ InRange(m.apRight, 20, 35)

Analysed ==
    analyzeMeasurements(call.body.image, call.body.landmarks, call.fault,
                        call.scope).value

SameNumber(a, b) == ~IsNaN(a) /\ ~IsNaN(b) /\ a = b

-----------------------------------------------------------------------------
(* Properties of the geometry functions (SpecGeometry) *)

\* C14: calculateDistance(p, p) = 0 for every point p, and
\* calculateDistance(a, b) = calculateDistance(b, a) for all points a and b.
C14_DistanceZeroAndSymmetric ==
    call.op = "calculateDistance"
        => /\ call.point1 = call.point2 => result.value = Num(0)
           /\ result.value = geometryCalculateDistance(call.point2, call.point1)

\* two different points at a distance that is no whole number
C14_Witness ==
    /\ call.op = "calculateDistance"
    /\ call.point1 = [x |-> 0, y |-> 0]
    /\ call.point2 = [x |-> 1, y |-> 2]
    /\ result.value = [n |-> 1, d |-> 1, c |-> 0, r |-> 5]
    /\ geometryCalculateDistance(call.point2, call.point1) = result.value

\* C15: for any three points in which neither point1 nor point2 coincides
\* with the vertex, calculateAngleBetweenPoints returns a value of at least
\* 0 and at most 180 degrees.
C15_AngleWithinZeroAnd180 ==
    /\ call.op = "calculateAngleBetweenPoints"
    /\ call.point1 # call.vertex
    /\ call.point2 # call.vertex
    => /\ result.value.kind = "degrees"
       /\ 0 <= result.value.lo
       /\ result.value.lo <= result.value.hi
       /\ result.value.hi <= 180

\* the two rays point in opposite directions: 180 degrees
C15_Witness ==
    /\ call.op = "calculateAngleBetweenPoints"
    /\ call.point1 # call.vertex
    /\ call.point2 # call.vertex
    /\ call.point1.x < call.vertex.x /\ call.vertex.x < call.point2.x
    /\ result.value = Degrees(180, 180)

OriginalPoint == [x |-> Num(call.point.x), y |-> Num(call.point.y)]

\* C16: for every point and every center, rotatePoint(point, center, 0)
\* and rotatePoint(point, center, 360) return the original point.
C16_RotationByZeroOrFullTurn ==
    call.op = "rotatePoint" /\ call.angle \in {0, 360}
        => result.value = OriginalPoint

\* a full turn about a center that is neither the point nor the origin
C16_Witness ==
    /\ call.op = "rotatePoint"
    /\ call.angle = 360
    /\ call.center \notin {call.point, [x |-> 0, y |-> 0]}
    /\ result.value = OriginalPoint
    /\ rotatePoint(call.point, call.center, 90) # OriginalPoint

\* twice the signed area of the triangle a, b, c: 0 when c is on the line
\* through a and b, and of opposite sign on its two sides
Cross(a, b, c) == (b.x - a.x) * (c.y - a.y) - (b.y - a.y) * (c.x - a.x)

\* the directions of the two segments are parallel, or one segment is a
\* single point
ParallelSegments(a1, b1, a2, b2) ==
    (b1.x - a1.x) * (b2.y - a2.y) = (b1.y - a1.y) * (b2.x - a2.x)

\* c and d are not strictly on the same side of the line through a and b
Straddle(a, b, c, d) ==
    ~(Cross(a, b, c) > 0 /\ Cross(a, b, d) > 0) /\ ~(Cross(a, b, c) < 0 /\ Cross(a, b, d) < 0)

\* the point p, with fractions as coordinates, lies on the segment from a
\* to b
OnSegment(p, a, b) ==
    LET px  == Minus(p.x, Num(a.x))
        py  == Minus(p.y, Num(a.y))
        dot == Plus(Times(px, Num(b.x - a.x)), Times(py, Num(b.y - a.y)))
    IN  /\ IsFinite(p.x) /\ IsFinite(p.y)
        /\ Times(Num(b.x - a.x), py) = Times(Num(b.y - a.y), px)
        /\ ~Below(dot, 0)
        /\ ~Above(dot, SquaredDistance(a, b))

IntersectionCalled == call.op = "calculateLineIntersection"

\* C23: calculateLineIntersection returns null exactly when the two
\* segments are parallel (denominator 0) or the intersection of their lines
\* lies outside either segment (a parameter outside [0, 1]); whenever it
\* returns a point, that point lies on both finite segments.
C23_IntersectionOnBothSegments ==
    IntersectionCalled
        => /\ result.value = Null
                <=> \/ ParallelSegments(call.line1Start, call.line1End,
                                        call.line2Start, call.line2End)
                    \/ ~Straddle(call.line1Start, call.line1End,
                                 call.line2Start, call.line2End)
                    \/ ~Straddle(call.line2Start, call.line2End,
                                 call.line1Start, call.line1End)
           /\ result.value # Null
                => /\ OnSegment(result.value, call.line1Start, call.line1End)
                   /\ OnSegment(result.value, call.line2Start, call.line2End)

\* two segments that cross between grid points
C23_Witness ==
    /\ IntersectionCalled
    /\ result.value # Null
    /\ result.value.x.d > 1
    /\ result.value # [x |-> Num(call.line1Start.x), y |-> Num(call.line1Start.y)]

\* the square of the distance from p to the nearest point of the segment
\* from a to b
NearestSquared(a, b, p) ==
    LET dot == (p.x - a.x) * (b.x - a.x) + (p.y - a.y) * (b.y - a.y)
    IN  IF a = b \/ dot <= 0 THEN Num(SquaredDistance(a, p))
        ELSE IF dot >= SquaredDistance(a, b) THEN Num(SquaredDistance(b, p))
        ELSE Frac(Cross(a, b, p) * Cross(a, b, p), SquaredDistance(a, b), 0)

ProjectionCalled == call.op = "calculateProjection"

PointToLineCalled == call.op = "calculatePointToLineDistance"

\* C24: for every segment and every point, calculateProjection returns a
\* point that lies on the segment between its endpoints, and
\* calculatePointToLineDistance returns the distance from the point to
\* that projection; both are defined for all finite inputs, including a
\* segment whose endpoints coincide.
C24_ProjectionDefinedOnSegment ==
    /\ ProjectionCalled => OnSegment(result.value, call.lineStart, call.lineEnd)
    /\ PointToLineCalled
         => /\ IsFinite(result.value)
            /\ Times(result.value, result.value)
                 = NearestSquared(call.lineStart, call.lineEnd, call.point)

\* C24, the part that holds: calculatePointToLineDistance is as claimed for
\* every segment, and calculateProjection for the segments whose endpoints
\* differ.
ProjectionOnSegmentOfDistinctEndpoints ==
    /\ ProjectionCalled /\ call.lineStart # call.lineEnd
         => /\ OnSegment(result.value, call.lineStart, call.lineEnd)
            /\ LET d == calculateDistanceOfFractions(
                            [x |-> Num(call.point.x), y |-> Num(call.point.y)],
                            result.value)
               IN  Times(d, d) = NearestSquared(call.lineStart, call.lineEnd, call.point)
    /\ PointToLineCalled
         => /\ IsFinite(result.value)
            /\ Times(result.value, result.value)
                 = NearestSquared(call.lineStart, call.lineEnd, call.point)

\* calculateProjection on a segment whose endpoints coincide: 0 / 0
ProjectionOfPointSegmentIsNaN ==
    ProjectionCalled /\ call.lineStart = call.lineEnd
        => IsNaN(result.value.x) /\ IsNaN(result.value.y)

-----------------------------------------------------------------------------
(* Properties of the sharpness metric (SpecPixels) *)

InteriorPixels(image) == (1..(image.width - 2)) \X (1..(image.height - 2))

RECURSIVE SumOver(_, _)
\* the sum of term[p] over the pixels p of S
SumOver(term, S) ==
    IF S = {} THEN 0
    ELSE LET p == CHOOSE q \in S : TRUE
         IN  term[p] + SumOver(term, S \ {p})

Channel(image, p, ch) == image.data[(p[2] * image.width + p[1]) * 4 + ch]

\* the absolute differences of the three channels, each on its own, to the
\* right and to the lower neighbour
PerChannelDifferences(image, p) ==
    LET right == <<p[1] + 1, p[2]>>
        below == <<p[1], p[2] + 1>>
        D(q, ch) == AbsInt(Channel(image, p, ch) - Channel(image, q, ch))
    IN  D(right, 0) + D(right, 1) + D(right, 2) + D(below, 0) + D(below, 1) + D(below, 2)

\* the sum of the three channels of a pixel
Intensity(image, p) == Channel(image, p, 0) + Channel(image, p, 1) + Channel(image, p, 2)

\* the absolute differences of the intensity to the right and to the lower
\* neighbour
IntensityDifferences(image, p) ==
    AbsInt(Intensity(image, p) - Intensity(image, <<p[1] + 1, p[2]>>))
  + AbsInt(Intensity(image, p) - Intensity(image, <<p[1], p[2] + 1>>))

\* the average the claim describes: per-channel absolute differences over
\* the two directions, the three channels and the interior pixels
PerChannelAverage(image) ==
    Divide(Num(SumOver([p \in InteriorPixels(image) |-> PerChannelDifferences(image, p)],
                       InteriorPixels(image))),
           Num(6 * Cardinality(InteriorPixels(image))))

\* the average the code computes: absolute intensity differences over the
\* two directions and the three channels, and over all pixels of the image
IntensityAverage(image) ==
    Divide(Num(SumOver([p \in InteriorPixels(image) |-> IntensityDifferences(image, p)],
                       InteriorPixels(image))),
           Num(6 * image.width * image.height))

SharpnessCalled == call.op \in {"analyzeSharpness", "calculateSharpness"}

SharpnessValue ==
    IF call.op = "analyzeSharpness" THEN result.value.value ELSE result.value

\* C21: the sharpness value is, over every interior pixel, the sum of the
\* absolute horizontal and vertical neighbour differences of each of the
\* three colour channels, averaged over all channels and interior pixels,
\* and sharpness.isGood holds iff that average is at least 0.5.
C21_SharpnessPerChannelOverInterior ==
    SharpnessCalled /\ InteriorPixels(call.image) # {}
        => /\ SharpnessValue = PerChannelAverage(call.image)
           /\ call.op = "analyzeSharpness"
                 => (result.value.isGood
                        <=> AtLeast(PerChannelAverage(call.image), Frac(1, 2, 0)))

\* C21 as amended: the sharpness value is, over every interior pixel, the
\* sum of the absolute difference of the summed three channels to the right
\* neighbour and to the lower neighbour, divided by 6, added up and divided
\* by width x height (all pixels); it is 0 for an image without interior
\* pixels and NaN for an empty image; isGood holds iff the value is at
\* least 0.5.
C21_SharpnessOfIntensityOverImage ==
    SharpnessCalled
        => /\ SharpnessValue = IntensityAverage(call.image)
           /\ call.op = "analyzeSharpness"
                 => (result.value.isGood
                        <=> AtLeast(IntensityAverage(call.image), Frac(1, 2, 0)))

\* channel differences of opposite sign cancel: red 27 against green 27
C21_Witness ==
    /\ call.op = "analyzeSharpness"
    /\ call.image.width = 3
    /\ PerChannelDifferences(call.image, <<1, 1>>) = 108
    /\ IntensityDifferences(call.image, <<1, 1>>) = 0
    /\ result.value = [value |-> Num(0), isGood |-> FALSE]

-----------------------------------------------------------------------------
(* Properties of the appointment routes (SpecAppointments) *)

Active(i) == appointments[i].status \in ActiveStatuses

SameSlot(i, j) ==
    /\ appointments[i].franchiseId = appointments[j].franchiseId
    /\ appointments[i].date = appointments[j].date
    /\ appointments[i].time = appointments[j].time

\* C26: after any interleaving of POST, PUT and DELETE requests on
\* /api/appointments, no two appointments with status scheduled or
\* confirmed share the same franchise, date and time slot.
C26_NoDoubleBooking ==
    \A i, j \in DOMAIN appointments :
        i # j /\ Active(i) /\ Active(j) => ~SameSlot(i, j)

-----------------------------------------------------------------------------
(* Properties of the franchisee application routes (SpecFranchisees) *)

\* the decision requests that wrote the application: those past their
\* update, answered 200 or, after the update, 500
TookOutOfPending ==
    { r \in DecisionRequests :
        \/ requests[r].pc \in {"findUser", "insertUser", "createProfile"}
        \/ requests[r].pc = "done" /\ requests[r].status \in {200, 500} }

\* C27: for any interleaving of approve, reject and request-info requests
\* on one franchisee application, at most one of them takes the application
\* out of status pending, all others get 400 and change nothing, and at
\* most one franchisee user and profile is created for the application.
C27_OneDecisionOneUser ==
    /\ Cardinality(TookOutOfPending) <= 1
    /\ Len(users) <= 1
    /\ Len(profiles) <= 1
    /\ Len(applications) = 1
         => Cardinality({ f \in {"approvedBy", "rejectedBy", "infoRequestedBy"} :
                            applications[1][f] # 0 }) <= 1

-----------------------------------------------------------------------------
(* Properties of the save and delete handlers (SpecMeasurements) *)

\* a client back in the pool with its transaction still open
LeakedTransaction(client) == ~pool[client].leased /\ pool[client].inTransaction

\* C28: in the measurement save and delete handlers, on every path
\* (success, validation error, storage error, measurement not found) a
\* transaction opened with BEGIN on the pooled client is ended with COMMIT
\* or ROLLBACK before that client is released back to the pool.
C28_TransactionEndedBeforeRelease ==
    \A client \in PoolClients : ~LeakedTransaction(client)

\* C28, the part that holds: a client goes back with an open transaction
\* only from a delete request that answered 404.
TransactionLeakedOnlyByNotFound ==
    (\E client \in PoolClients : LeakedTransaction(client))
        => \E r \in DOMAIN requests :
              /\ requests[r].handler = "delete"
              /\ requests[r].pc = "done"
              /\ requests[r].status = 404

-----------------------------------------------------------------------------
(* Properties of loadModels and detectFacialLandmarks (SpecDetection) *)

AllNetsLoaded == \A net \in DOMAIN FaceApiNets : loads[net] >= 1

\* the calls that have come to the detection
Detecting ==
    { r \in DOMAIN requests :
        /\ requests[r].handler = "detectFacialLandmarks"
        /\ \/ requests[r].pc = "detect"
           \/ requests[r].pc = "done" /\ requests[r].status = "return" }

\* C29: under any interleaving of concurrent detectFacialLandmarks calls,
\* each face-api model is loaded from disk at most once per process, and
\* no detection runs before all three model loads have completed.
C29_ModelsLoadedOnce ==
    /\ \A net \in DOMAIN FaceApiNets : loads[net] <= 1
    /\ Detecting # {} => AllNetsLoaded

\* C29, the part that holds: no detection runs before all three nets have
\* been loaded, and modelsLoaded is true only then.
DetectionAfterAllLoads ==
    /\ Detecting # {} => AllNetsLoaded
    /\ modelsLoaded => AllNetsLoaded
    /\ \A r \in DOMAIN requests :
          At(r, {"detectFacialLandmarks"}, "loadImage") => AllNetsLoaded

-----------------------------------------------------------------------------
(* Properties of POST /api/facial-measurements/measure (SpecFacial) *)

MeasureRequests == { r \in DOMAIN requests : requests[r].handler = "measure" }

\* the position analysis of request r has answered, and how
PositionCorrect(r) ==
    requests[r].reply.kind = "return" /\ requests[r].reply.value.isCorrect

PositionRefused(r) ==
    \/ requests[r].reply.kind = "throw"
    \/ requests[r].reply.kind = "return" /\ ~requests[r].reply.value.isCorrect

\* request r has come to the measurements or to storage.createMeasurement
PastPosition(r) ==
    \/ requests[r].pc \in {"measurements", "createMeasurement"}
    \/ requests[r].pc = "done" /\ requests[r].status \in {200, 500}

=============================================================================
